---- MODULE Spec2Model ----
(***************************************************************************)
(* palantir/go-baseapp: the appmetrics package (metrics structs, tagged    *)
(* metrics, Register/Unregister) and the datadog emitter (Emit, EmitOnce,  *)
(* tagsFromName), as a state machine over one go-metrics registry.         *)
(*                                                                         *)
(* A Go string is a sequence of one-character strings: "r[a]" is           *)
(* <<"r", "[", "a", "]">>.  A metric instance is an index into heap.       *)
(***************************************************************************)
EXTENDS Integers, Sequences, FiniteSets, Bags, TLC

\* ------------------------------------------------------------------ bounds

\* Metric instances that may be allocated in one run.
MaxInst == 6
\* Sum of all counter totals and gauge values in one run.
MaxTotal == 3
\* Tag calls remembered since the last Unregister.
MaxCalls == 2
\* Arguments of one Tag call.
MaxTags == 2
\* Ticks the ticker delivers in one run.
MaxTicks == 2
\* The fields of a struct type New is tried on.
MaxFields == 2
\* Reads of the functional gauge in one run.
MaxReads == 6
\* The length of a name given to tagsFromName.
MaxLen == 6

\* The most comma-separated parts of a metric-sample value.
MaxParts == 4

\* The most fields of a struct type whose names are asked for.
MaxOrder == 3

\* The most key descriptors of the service provider's metadata.
MaxKeys == 5

\* ----------------------------------------------------------------- strings

\* The byte value of a character: Go compares strings bytewise.
Ord(c) ==
    CASE c = " " -> 32
      [] c = "," -> 44
      [] c = ":" -> 58
      [] c = "[" -> 91
      [] c = "]" -> 93
      [] c = "a" -> 97
      [] c = "b" -> 98
      [] c = "c" -> 99
      [] c = "g" -> 103
      [] c = "r" -> 114

\* s < t on Go strings.
RECURSIVE StrLess(_, _)
StrLess(s, t) ==
    IF t = <<>> THEN FALSE
    ELSE IF s = <<>> THEN TRUE
    ELSE IF Ord(Head(s)) # Ord(Head(t)) THEN Ord(Head(s)) < Ord(Head(t))
    ELSE StrLess(Tail(s), Tail(t))

\* unicode.IsSpace, on the characters of the model.
IsSpace(c) == c = " "

RECURSIVE TrimLeft(_)
TrimLeft(s) ==
    IF s # <<>> /\ IsSpace(Head(s)) THEN TrimLeft(Tail(s)) ELSE s

RECURSIVE TrimRight(_)
TrimRight(s) ==
    IF s # <<>> /\ IsSpace(s[Len(s)])
    THEN TrimRight(SubSeq(s, 1, Len(s) - 1))
    ELSE s

\* strings.TrimSpace
TrimSpace(s) == TrimRight(TrimLeft(s))

\* sort.Strings: the insertion of t into a sorted list.
RECURSIVE InsertSorted(_, _)
InsertSorted(t, sorted) ==
    IF sorted = <<>> THEN <<t>>
    ELSE IF StrLess(t, Head(sorted)) THEN <<t>> \o sorted
    ELSE <<Head(sorted)>> \o InsertSorted(t, Tail(sorted))

RECURSIVE SortStrings(_)
SortStrings(ts) ==
    IF ts = <<>> THEN <<>>
    ELSE InsertSorted(Head(ts), SortStrings(Tail(ts)))

\* The loop of cleanAndSortTags: trim each tag, keep the non-empty ones.
RECURSIVE CleanTags(_)
CleanTags(tags) ==
    IF tags = <<>> THEN <<>>
    ELSE LET t == TrimSpace(Head(tags))
         IN  IF t # <<>> THEN <<t>> \o CleanTags(Tail(tags))
             ELSE CleanTags(Tail(tags))

\* A plausible slip: the cleaned tags are returned unsorted.
cleanAndSortTagsUnsorted(tags) == CleanTags(tags)

cleanAndSortTags(tags) == SortStrings(CleanTags(tags))

\* The tags joined by commas, as Tag's loop writes them.
RECURSIVE JoinTags(_)
JoinTags(ts) ==
    IF ts = <<>> THEN <<>>
    ELSE IF Len(ts) = 1 THEN Head(ts)
    ELSE Head(ts) \o <<",">> \o JoinTags(Tail(ts))

\* A plausible slip: repeated tags are written once.
RECURSIVE DropRepeats(_)
DropRepeats(ts) ==
    IF Len(ts) < 2 THEN ts
    ELSE IF ts[1] = ts[2] THEN DropRepeats(Tail(ts))
    ELSE <<Head(ts)>> \o DropRepeats(Tail(ts))

TagNameDeduplicated(name, tags) ==
    LET ts == DropRepeats(cleanAndSortTags(tags))
    IN  IF Len(ts) > 0 THEN name \o <<"[">> \o JoinTags(ts) \o <<"]">>
        ELSE name

\* A plausible slip: the tag suffix is never written.
TagNameBare(name, tags) == name

\* The registry key Tag builds: name, or name[tag1,tag2,...].
TagName(name, tags) ==
    LET ts == cleanAndSortTags(tags)
    IN  IF Len(ts) > 0 THEN name \o <<"[">> \o JoinTags(ts) \o <<"]">>
        ELSE name

\* strings.IndexRune(name, c): the first index of c, counted from 1; 0 if none.
RECURSIVE IndexRune(_, _)
IndexRune(s, c) ==
    IF s = <<>> THEN 0
    ELSE IF Head(s) = c THEN 1
    ELSE LET i == IndexRune(Tail(s), c) IN IF i = 0 THEN 0 ELSE i + 1

\* strings.Split(s, ","): always at least one part.
RECURSIVE SplitComma(_)
SplitComma(s) ==
    LET i == IndexRune(s, ",")
    IN  IF i = 0 THEN <<s>>
        ELSE <<SubSeq(s, 1, i - 1)>> \o SplitComma(SubSeq(s, i + 1, Len(s)))

\* The last index of c in s, counted from 1; 0 if none.
RECURSIVE LastIndexRune(_, _)
LastIndexRune(s, c) ==
    IF s = <<>> THEN 0
    ELSE IF s[Len(s)] = c THEN Len(s)
    ELSE LastIndexRune(SubSeq(s, 1, Len(s) - 1), c)

\* A plausible slip: the tags are taken from the last opening bracket on.
tagsFromNameLastOpen(name) ==
    LET start == LastIndexRune(name, "[")
    IN  IF start = 0 \/ name[Len(name)] # "]"
        THEN [name |-> name, tags |-> <<>>]
        ELSE [name |-> SubSeq(name, 1, start - 1),
              tags |-> SplitComma(SubSeq(name, start + 1, Len(name) - 1))]

\* A plausible slip: the closing bracket is not asked for.
tagsFromNameAnyEnd(name) ==
    LET start == IndexRune(name, "[")
    IN  IF start = 0
        THEN [name |-> name, tags |-> <<>>]
        ELSE [name |-> SubSeq(name, 1, start - 1),
              tags |-> SplitComma(SubSeq(name, start + 1, Len(name) - 1))]

\* tagsFromName: the base name and the tags of a registry key.
tagsFromName(name) ==
    LET start == IndexRune(name, "[")
    IN  IF start = 0 \/ name[Len(name)] # "]"
        THEN [name |-> name, tags |-> <<>>]
        ELSE [name |-> SubSeq(name, 1, start - 1),
              tags |-> SplitComma(SubSeq(name, start + 1, Len(name) - 1))]

\* tagsFromName panics: name[len(name)-1] is reached on an empty name, or
\* the bounds of name[start+1:len(name)-1] are out of order.
tagsFromNamePanics(name) ==
    LET start == IndexRune(name, "[")
    IN  /\ start # 0
        /\ \/ Len(name) = 0
           \/ name[Len(name)] = "]" /\ start > Len(name) - 1

\* ------------------------------------------------------------ the structs

\* The metrics structs of the run.  m1 has a plain counter and a tagged
\* counter (Counter and TaggedCounter of the example); m2 declares the same
\* plain counter name and a gauge (the shape of SimpleMetrics).
Holders == {"m1", "m2"}

Fields(h) ==
    IF h = "m1"
    THEN << [name |-> <<"c">>, kind |-> "Counter", tagged |-> FALSE],
            [name |-> <<"r">>, kind |-> "Counter", tagged |-> TRUE] >>
    ELSE << [name |-> <<"c">>, kind |-> "Counter", tagged |-> FALSE],
            [name |-> <<"g">>, kind |-> "Gauge", tagged |-> FALSE] >>

\* MetricNames: the declared names, in field order.
RECURSIVE NamesFrom(_, _)
NamesFrom(h, i) ==
    IF i > Len(Fields(h)) THEN <<>>
    ELSE <<Fields(h)[i].name>> \o NamesFrom(h, i + 1)

MetricNames(h) == NamesFrom(h, 1)

DeclaredNames(h) == {MetricNames(h)[i] : i \in 1..Len(MetricNames(h))}

\* The characters and the strings a caller passes to Tag.
TagStrings ==
    { <<>>, <<" ">>, <<"a">>, <<" ", "a", " ">>, <<"b">>, <<"a", ",", "b">> }

RECURSIVE SeqsUpTo(_, _)
SeqsUpTo(S, n) ==
    IF n = 0 THEN {<<>>}
    ELSE LET shorter == SeqsUpTo(S, n - 1)
         IN  shorter \cup {Append(q, x) : q \in shorter, x \in S}

\* The argument lists of Tag.
TagArgs == SeqsUpTo(TagStrings, MaxTags)

\* The argument lists of Tag in runs that also drive the emitter.
FewTagArgs == { <<>>, << <<" ">> >>, << <<"a">> >> }

\* ------------------------------------------------------------------ state

VARIABLES
    heap,       \* the metric instances: heap[id] = [kind, count]
    inst,       \* inst[h][i]: the instance in field i of struct h, 0 for a tagged field
    taggedR,    \* taggedR[h]: the r of the taggedMetric fields of h is set
    reg,        \* the registry: name -> instance
    calls,      \* the Tag calls since the last Unregister: [tags, ret, bound]
    unregd,     \* the struct last unregistered, "none" after a Register
    pc,         \* Emit: "idle", "once", "select", "emitting", "done"
    tick,       \* a tick waits in the ticker's channel
    cancelled,  \* ctx.Done() is closed
    snap,       \* the entries Each copied when the pass in progress began
    todo,       \* the entries of snap still to visit
    sent,       \* the messages the pass in progress handed to the client, a bag
    passAfter,  \* the struct whose Unregister the pass in progress directly follows
    nTicks,     \* ticks delivered to the channel
    nEmits,     \* EmitOnce calls made by Emit
    prev,       \* prev[id]: the total the latest pass read from counter id, 0 at first
    thr,        \* thr[t]: the Tag call of goroutine t: [pc, tags, name, bound, slow, ret, incs]
    fgauge,     \* the struct with a functional gauge: [state, calls, reads]
    arg,        \* the latest call of a function followed on its own: [fn, in]
    res,        \* and what that call returned: [fn, out]
    sinkDown,   \* the client's calls return an error for now
    failed      \* the visits whose calls returned an error: [pass, e]

vars == << heap, inst, taggedR, reg, calls, unregd, pc, tick, cancelled,
           snap, todo, sent, passAfter, nTicks, nEmits, prev, thr, fgauge, arg, res,
           sinkDown, failed >>

appVars == << heap, inst, taggedR, reg, calls, unregd >>
emitVars == << pc, tick, cancelled, snap, todo, sent, passAfter, nTicks, nEmits, prev >>
otherVars == << thr, fgauge, arg, res, sinkDown, failed >>

\* The goroutines that call Tag at the same time.
Threads == {"t1", "t2", "t3"}

IdleThread ==
    [pc |-> "idle", tags |-> <<>>, name |-> <<>>, bound |-> FALSE,
     slow |-> FALSE, ret |-> 0, incs |-> 0]

\* newMetric(): a fresh metric of the kind.
NewMetric(kind) == [kind |-> kind, count |-> 0]

\* createField over the fields of h from i on: a plain field gets a new
\* metric, a tagged field a taggedMetric with no registry.
RECURSIVE createFields(_, _, _)
createFields(h, i, hp) ==
    IF i > Len(Fields(h)) THEN [heap |-> hp, inst |-> <<>>]
    ELSE LET f == Fields(h)[i]
         IN  IF f.tagged
             THEN LET rest == createFields(h, i + 1, hp)
                  IN  [heap |-> rest.heap, inst |-> <<0>> \o rest.inst]
             ELSE LET rest == createFields(h, i + 1, Append(hp, NewMetric(f.kind)))
                  IN  [heap |-> rest.heap, inst |-> <<Len(hp) + 1>> \o rest.inst]

\* New[M](): the struct with every metric field populated.
New(h, hp) == createFields(h, 1, hp)

Init ==
    LET s1 == New("m1", <<>>)
        s2 == New("m2", s1.heap)
    IN  /\ heap = s2.heap
        /\ inst = [h \in Holders |-> IF h = "m1" THEN s1.inst ELSE s2.inst]
        /\ taggedR = [h \in Holders |-> FALSE]
        /\ reg = <<>>
        /\ calls = <<>>
        /\ unregd = "none"
        /\ pc = "idle"
        /\ tick = FALSE
        /\ cancelled = FALSE
        /\ snap = {}
        /\ todo = {}
        /\ sent = EmptyBag
        /\ passAfter = "none"
        /\ nTicks = 0
        /\ nEmits = 0
        /\ prev = [id \in 1..MaxInst |-> 0]
        /\ thr = [t \in Threads |-> IdleThread]
        /\ fgauge = [state |-> "none", calls |-> 0, reads |-> <<>>]
        /\ sinkDown = FALSE
        /\ failed = {}
        /\ arg = [fn |-> "none"]
        /\ res = [fn |-> "none"]

\* --------------------------------------------------------------- registry

\* r.GetOrRegister(name, newMetric): the metric under name, made by the
\* factory and stored when the name is free.
GetOrRegister(rg, hp, name, kind) ==
    IF name \in DOMAIN rg
    THEN [reg |-> rg, heap |-> hp, ret |-> rg[name]]
    ELSE [reg |-> rg @@ (name :> Len(hp) + 1),
          heap |-> Append(hp, NewMetric(kind)),
          ret |-> Len(hp) + 1]

\* A plausible slip: Register replaces the metric already under the name.
registerPlainOverwrite(rg, name, id) ==
    [n \in DOMAIN rg \cup {name} |-> IF n = name THEN id ELSE rg[n]]

\* _ = r.Register(name, metric): stored when the name is free, the
\* DuplicateMetric error dropped otherwise.
registerPlain(rg, name, id) ==
    IF name \in DOMAIN rg THEN rg ELSE rg @@ (name :> id)

\* A plausible slip: register only remembers the registry.
registerTaggedLazy(rg, hp, name, kind) == [reg |-> rg, heap |-> hp]

\* taggedMetric.register: r.GetOrRegister(m.name, m.newMetric).
registerTagged(rg, hp, name, kind) ==
    LET got == GetOrRegister(rg, hp, name, kind)
    IN  [reg |-> got.reg, heap |-> got.heap]

\* The loop of Register over the fields of h from i on.
RECURSIVE RegisterFields(_, _, _, _)
RegisterFields(h, i, rg, hp) ==
    IF i > Len(Fields(h)) THEN [reg |-> rg, heap |-> hp]
    ELSE LET f == Fields(h)[i]
         IN  IF f.tagged
             THEN LET done == registerTagged(rg, hp, f.name, f.kind)
                  IN  RegisterFields(h, i + 1, done.reg, done.heap)
             ELSE RegisterFields(h, i + 1, registerPlain(rg, f.name, inst[h][i]), hp)

\* The names the loop of Unregister removes.
UnregisterNames(h) == DeclaredNames(h)

Without(rg, names) == [n \in DOMAIN rg \ names |-> rg[n]]

\* ------------------------------------------------------------ application

\* A plausible slip: New also registers what it made.
NewCallRegisters(h) ==
    LET made == New(h, heap)
        done == [reg |-> registerPlain(reg, Fields(h)[1].name, made.inst[1]), heap |-> made.heap]
    IN  /\ Len(made.heap) <= MaxInst
        /\ heap' = done.heap
        /\ reg' = done.reg
        /\ inst' = [inst EXCEPT ![h] = made.inst]
        /\ taggedR' = [taggedR EXCEPT ![h] = FALSE]
        /\ calls' = IF \E i \in 1..Len(Fields(h)) : Fields(h)[i].tagged THEN <<>> ELSE calls
        /\ UNCHANGED unregd
        /\ UNCHANGED emitVars
        /\ UNCHANGED otherVars

\* m = New[M](): the application makes the struct h anew; the one it had
\* is dropped, what the registry holds of it stays there.
NewCall(h) ==
    LET made == New(h, heap)
    IN  /\ Len(made.heap) <= MaxInst
        /\ heap' = made.heap
        /\ inst' = [inst EXCEPT ![h] = made.inst]
        /\ taggedR' = [taggedR EXCEPT ![h] = FALSE]
        /\ calls' = IF \E i \in 1..Len(Fields(h)) : Fields(h)[i].tagged THEN <<>> ELSE calls
        /\ UNCHANGED << reg, unregd >>
        /\ UNCHANGED emitVars
        /\ UNCHANGED otherVars

\* Register(r, m)
Register(h) ==
    LET done == RegisterFields(h, 1, reg, heap)
    IN  /\ Len(done.heap) <= MaxInst
        /\ reg' = done.reg
        /\ heap' = done.heap
        /\ taggedR' = [taggedR EXCEPT ![h] = \E i \in 1..Len(Fields(h)) : Fields(h)[i].tagged]
        /\ unregd' = "none"
        /\ UNCHANGED << inst, calls >>
        /\ UNCHANGED emitVars
        /\ UNCHANGED otherVars

\* Unregister(r, m)
Unregister(h) ==
    /\ reg' = Without(reg, UnregisterNames(h))
    /\ calls' = <<>>
    /\ unregd' = h
    /\ UNCHANGED << heap, inst, taggedR >>
    /\ UNCHANGED emitVars
    /\ UNCHANGED otherVars

\* A plausible slip: Tag looks the name up in the registry although the
\* field was never registered.
TagBindsAlways(h, i, tags) ==
    /\ Fields(h)[i].tagged
    /\ Len(calls) < MaxCalls
    /\ LET f == Fields(h)[i]
           got == GetOrRegister(reg, heap, TagName(f.name, tags), f.kind)
       IN  /\ Len(got.heap) <= MaxInst
           /\ reg' = got.reg
           /\ heap' = got.heap
           /\ calls' = Append(calls, [tags |-> tags, ret |-> got.ret, bound |-> taggedR[h]])
    /\ UNCHANGED << inst, taggedR, unregd >>
    /\ UNCHANGED emitVars
    /\ UNCHANGED otherVars

\* m.<field i>.Tag(tags...).  The assertion .(M) on what GetOrRegister
\* returns panics when the registry holds a metric of another kind under
\* the name: the call then returns no metric, written ret = 0.
Tag(h, i, tags) ==
    /\ Fields(h)[i].tagged
    /\ Len(calls) < MaxCalls
    /\ LET f == Fields(h)[i]
       IN  IF ~taggedR[h]
           THEN \* m.r == nil: a metric from the factory, stored nowhere
                /\ Len(heap) < MaxInst
                /\ heap' = Append(heap, NewMetric(f.kind))
                /\ calls' = Append(calls, [tags |-> tags, ret |-> Len(heap) + 1, bound |-> FALSE])
                /\ UNCHANGED reg
           ELSE LET got == GetOrRegister(reg, heap, TagName(f.name, tags), f.kind)
                IN  /\ Len(got.heap) <= MaxInst
                    /\ reg' = got.reg
                    /\ heap' = got.heap
                    /\ calls' = Append(calls,
                                   [tags |-> tags,
                                    ret |-> IF got.heap[got.ret].kind = f.kind
                                            THEN got.ret ELSE 0,
                                    bound |-> TRUE])
    /\ UNCHANGED << inst, taggedR, unregd >>
    /\ UNCHANGED emitVars
    /\ UNCHANGED otherVars

RECURSIVE SumCounts(_)
SumCounts(hp) == IF hp = <<>> THEN 0 ELSE Head(hp).count + SumCounts(Tail(hp))

\* Counter.Inc(n) on instance id
Inc(id, n) ==
    /\ heap[id].kind = "Counter"
    /\ SumCounts(heap) + n <= MaxTotal
    /\ heap' = [heap EXCEPT ![id].count = @ + n]
    /\ UNCHANGED << inst, taggedR, reg, calls, unregd >>
    /\ UNCHANGED emitVars
    /\ UNCHANGED otherVars

\* m.<field i>.Inc(n) on a plain counter field
IncField(h, i, n) ==
    /\ ~Fields(h)[i].tagged
    /\ Inc(inst[h][i], n)

\* Inc(n) on the metric the j-th remembered Tag call returned
IncTagged(j, n) ==
    /\ j \in DOMAIN calls
    /\ Inc(calls[j].ret, n)

\* m.<field i>.Update(v) on a plain gauge field
UpdateField(h, i, v) ==
    /\ ~Fields(h)[i].tagged
    /\ heap[inst[h][i]].kind = "Gauge"
    /\ heap[inst[h][i]].count # v
    /\ SumCounts(heap) - heap[inst[h][i]].count + v <= MaxTotal
    /\ heap' = [heap EXCEPT ![inst[h][i]].count = v]
    /\ UNCHANGED << inst, taggedR, reg, calls, unregd >>
    /\ UNCHANGED emitVars
    /\ UNCHANGED otherVars

\* ------------------------------------------------- Tag from goroutines

\* The argument lists the goroutines pass to Tag.
RaceTagArgs ==
    { << <<"a">> >>, << <<" ", "a", " ">> >>,
      << <<"a">>, <<"b">> >>, << <<"b">>, <<" ">>, <<"a">> >> }

\* Goroutine t enters m.<tagged field of m1>.Tag(tags...): it reads m.r and,
\* when the field is registered, builds the name it is about to look up.
TagBegin(t, tags) ==
    /\ thr[t].pc = "idle"
    /\ LET f == Fields("m1")[2]
       IN  IF ~taggedR["m1"]
           THEN /\ Len(heap) < MaxInst
                /\ heap' = Append(heap, NewMetric(f.kind))
                /\ thr' = [thr EXCEPT ![t] = [IdleThread EXCEPT !.pc = "done", !.tags = tags,
                                                               !.ret = Len(heap) + 1]]
           ELSE /\ thr' = [thr EXCEPT ![t] = [IdleThread EXCEPT !.pc = "rlock", !.tags = tags,
                                                               !.name = TagName(f.name, tags),
                                                               !.bound = TRUE]]
                /\ UNCHANGED heap
    /\ UNCHANGED << inst, taggedR, reg, calls, unregd, fgauge, arg, res, sinkDown, failed >>
    /\ UNCHANGED emitVars

\* GetOrRegister, first half: under the read lock the name is looked up;
\* a metric found there is returned.
GetOrRegisterFast(t) ==
    /\ thr[t].pc = "rlock"
    /\ thr' = IF thr[t].name \in DOMAIN reg
              THEN [thr EXCEPT ![t].pc = "done", ![t].ret = reg[thr[t].name]]
              ELSE [thr EXCEPT ![t].pc = "lock"]
    /\ UNCHANGED << fgauge, arg, res, sinkDown, failed >>
    /\ UNCHANGED appVars
    /\ UNCHANGED emitVars

\* A plausible slip: under the write lock the name is not looked up again.
GetOrRegisterSlowNoRecheck(t) ==
    /\ thr[t].pc = "lock"
    /\ Len(heap) < MaxInst
    /\ heap' = Append(heap, NewMetric(Fields("m1")[2].kind))
    /\ reg' = [n \in DOMAIN reg \cup {thr[t].name} |->
                  IF n = thr[t].name THEN Len(heap) + 1 ELSE reg[n]]
    /\ thr' = [thr EXCEPT ![t].pc = "done", ![t].slow = TRUE, ![t].ret = Len(heap) + 1]
    /\ UNCHANGED << inst, taggedR, calls, unregd, fgauge, arg, res, sinkDown, failed >>
    /\ UNCHANGED emitVars

\* GetOrRegister, second half: under the write lock the name is looked up
\* again, and only when it is still free the factory runs and its metric is
\* stored.
GetOrRegisterSlow(t) ==
    /\ thr[t].pc = "lock"
    /\ LET got == GetOrRegister(reg, heap, thr[t].name, Fields("m1")[2].kind)
       IN  /\ Len(got.heap) <= MaxInst
           /\ reg' = got.reg
           /\ heap' = got.heap
           /\ thr' = [thr EXCEPT ![t].pc = "done", ![t].slow = TRUE, ![t].ret = got.ret]
    /\ UNCHANGED << inst, taggedR, calls, unregd, fgauge, arg, res, sinkDown, failed >>
    /\ UNCHANGED emitVars

\* Goroutine t calls Inc(1) on the metric its Tag call returned.
ThreadInc(t) ==
    /\ thr[t].pc = "done"
    /\ SumCounts(heap) + 1 <= MaxTotal
    /\ heap' = [heap EXCEPT ![thr[t].ret].count = @ + 1]
    /\ thr' = [thr EXCEPT ![t].incs = @ + 1]
    /\ UNCHANGED << inst, taggedR, reg, calls, unregd, fgauge, arg, res, sinkDown, failed >>
    /\ UNCHANGED emitVars

\* ---------------------------------------------------------------- emitter

Msg(typ, name, value, tags) ==
    [typ |-> typ, name |-> name, value |-> value, tags |-> tags]

\* A plausible slip: the counter's growth since the previous pass is sent.
CountSincePrev(id) == heap[id].count - prev[id]

\* m.Count(), the value handed to client.Count.
CountValue(id) == heap[id].count

\* A value read from a snapshot of a histogram, meter or timer.
Stat(id, what) == [stat |-> what, of |-> id]

\* A plausible slip: the 95th percentile is left out.
HistogramMessagesNoPercentile(name, tags, id) ==
    << Msg("g", name \o <<".", "a", "v", "g">>, Stat(id, "Mean"), tags),
       Msg("g", name \o <<".", "c", "o", "u", "n", "t">>, Stat(id, "Count"), tags),
       Msg("g", name \o <<".", "m", "a", "x">>, Stat(id, "Max"), tags),
       Msg("g", name \o <<".", "m", "e", "d", "i", "a", "n">>, Stat(id, "Percentile(0.5)"), tags),
       Msg("g", name \o <<".", "m", "i", "n">>, Stat(id, "Min"), tags),
       Msg("g", name \o <<".", "s", "u", "m">>, Stat(id, "Sum"), tags) >>

\* The Histogram and Timer cases of EmitOnce.
HistogramMessages(name, tags, id) ==
    << Msg("g", name \o <<".", "a", "v", "g">>, Stat(id, "Mean"), tags),
       Msg("g", name \o <<".", "c", "o", "u", "n", "t">>, Stat(id, "Count"), tags),
       Msg("g", name \o <<".", "m", "a", "x">>, Stat(id, "Max"), tags),
       Msg("g", name \o <<".", "m", "e", "d", "i", "a", "n">>, Stat(id, "Percentile(0.5)"), tags),
       Msg("g", name \o <<".", "m", "i", "n">>, Stat(id, "Min"), tags),
       Msg("g", name \o <<".", "s", "u", "m">>, Stat(id, "Sum"), tags),
       Msg("g", name \o <<".", "9", "5", "p", "e", "r", "c", "e", "n", "t", "i", "l", "e">>,
           Stat(id, "Percentile(0.95)"), tags) >>

\* The Meter case of EmitOnce.
MeterMessages(name, tags, id) ==
    << Msg("g", name \o <<".", "a", "v", "g">>, Stat(id, "RateMean"), tags),
       Msg("g", name \o <<".", "c", "o", "u", "n", "t">>, Stat(id, "Count"), tags),
       Msg("g", name \o <<".", "r", "a", "t", "e", "1">>, Stat(id, "Rate1"), tags),
       Msg("g", name \o <<".", "r", "a", "t", "e", "5">>, Stat(id, "Rate5"), tags),
       Msg("g", name \o <<".", "r", "a", "t", "e", "1", "5">>, Stat(id, "Rate15"), tags) >>

\* The callback EmitOnce gives to Each: the messages for one entry.
EntryMessages(e) ==
    LET nt == tagsFromName(e.name)
        kind == heap[e.id].kind
    IN  CASE kind = "Counter" -> << Msg("c", nt.name, CountValue(e.id), nt.tags) >>
          [] kind \in {"Gauge", "GaugeFloat64"} ->
                << Msg("g", nt.name, heap[e.id].count, nt.tags) >>
          [] kind \in {"Histogram", "Timer"} -> HistogramMessages(nt.name, nt.tags, e.id)
          [] kind = "Meter" -> MeterMessages(nt.name, nt.tags, e.id)
          [] OTHER -> <<>>

RECURSIVE SeqToBag(_)
SeqToBag(ms) ==
    IF ms = <<>> THEN EmptyBag ELSE SetToBag({Head(ms)}) (+) SeqToBag(Tail(ms))

\* registry.Each: the entries are copied before the first one is visited.
Registered == {[name |-> n, id |-> reg[n]] : n \in DOMAIN reg}

\* EmitOnce is entered: from a direct call (to = "once") or from Emit.
BeginPass(to) ==
    /\ pc' = to
    /\ snap' = Registered
    /\ todo' = Registered
    /\ sent' = EmptyBag
    /\ passAfter' = IF calls = <<>> THEN unregd ELSE "none"

\* e.EmitOnce() called by the application, Emit not running
EmitOnceCall ==
    /\ pc = "idle"
    /\ BeginPass("once")
    /\ UNCHANGED << tick, cancelled, nTicks, nEmits, prev >>
    /\ UNCHANGED appVars
    /\ UNCHANGED otherVars

\* A plausible slip: a visited entry stays on the list of entries to visit.
EmitVisitAgain(e) ==
    /\ pc \in {"once", "emitting"}
    /\ e \in todo
    /\ sent' = sent (+) SeqToBag(EntryMessages(e))
    /\ BagCardinality(sent') <= MaxInst
    /\ UNCHANGED << pc, tick, cancelled, snap, todo, passAfter, nTicks, nEmits, prev >>
    /\ UNCHANGED appVars
    /\ UNCHANGED otherVars

\* A plausible slip: an error returned by the client ends the pass and the
\* loop.
EmitVisitEscalates(e) ==
    /\ pc \in {"once", "emitting"}
    /\ e \in todo
    /\ todo' = IF sinkDown THEN {} ELSE todo \ {e}
    /\ pc' = IF sinkDown THEN "done" ELSE pc
    /\ sent' = sent (+) SeqToBag(EntryMessages(e))
    /\ failed' = IF sinkDown THEN failed \cup {[pass |-> nEmits, e |-> e]} ELSE failed
    /\ prev' = IF heap[e.id].kind = "Counter"
               THEN [prev EXCEPT ![e.id] = heap[e.id].count]
               ELSE prev
    /\ UNCHANGED << tick, cancelled, snap, passAfter, nTicks, nEmits >>
    /\ UNCHANGED appVars
    /\ UNCHANGED << thr, fgauge, arg, res, sinkDown >>

\* One entry of the pass is visited and its messages are handed to the
\* client; the error a call of the client returns is not looked at.
EmitVisit(e) ==
    /\ pc \in {"once", "emitting"}
    /\ e \in todo
    /\ todo' = todo \ {e}
    /\ sent' = sent (+) SeqToBag(EntryMessages(e))
    /\ failed' = IF sinkDown THEN failed \cup {[pass |-> nEmits, e |-> e]} ELSE failed
    /\ prev' = IF heap[e.id].kind = "Counter"
               THEN [prev EXCEPT ![e.id] = heap[e.id].count]
               ELSE prev
    /\ UNCHANGED << pc, tick, cancelled, snap, passAfter, nTicks, nEmits >>
    /\ UNCHANGED appVars
    /\ UNCHANGED << thr, fgauge, arg, res, sinkDown >>

\* EmitOnce returns: Each has visited every entry.
EmitOnceReturn ==
    /\ pc \in {"once", "emitting"}
    /\ todo = {}
    /\ pc' = IF pc = "once" THEN "idle" ELSE "select"
    /\ snap' = {}
    /\ sent' = EmptyBag
    /\ passAfter' = "none"
    /\ UNCHANGED << tick, cancelled, todo, nTicks, nEmits, prev >>
    /\ UNCHANGED appVars
    /\ UNCHANGED otherVars

\* A plausible slip: Emit emits once before it waits for the first tick.
EmitStartEager ==
    /\ pc = "idle"
    /\ BeginPass("emitting")
    /\ nEmits' = nEmits + 1
    /\ UNCHANGED << tick, cancelled, nTicks, prev >>
    /\ UNCHANGED appVars
    /\ UNCHANGED otherVars

\* go e.Emit(ctx, interval): the ticker is made, the loop waits in select.
EmitStart ==
    /\ pc = "idle"
    /\ pc' = "select"
    /\ UNCHANGED << tick, cancelled, snap, todo, sent, passAfter, nTicks, nEmits, prev >>
    /\ UNCHANGED appVars
    /\ UNCHANGED otherVars

\* The ticker fires: its channel holds one tick, a tick to a full channel
\* is dropped.  The ticker runs from NewTicker to t.Stop().
Tick ==
    /\ pc \in {"select", "emitting"}
    /\ ~tick
    /\ nTicks < MaxTicks
    /\ tick' = TRUE
    /\ nTicks' = nTicks + 1
    /\ UNCHANGED << pc, cancelled, snap, todo, sent, passAfter, nEmits, prev >>
    /\ UNCHANGED appVars
    /\ UNCHANGED otherVars

\* cancel() of Emit's context
Cancel ==
    /\ ~cancelled
    /\ cancelled' = TRUE
    /\ UNCHANGED << pc, tick, snap, todo, sent, passAfter, nTicks, nEmits, prev >>
    /\ UNCHANGED appVars
    /\ UNCHANGED otherVars

\* select, case <-t.C: e.EmitOnce().  Taken whenever a tick waits, also
\* when ctx.Done() is ready too: select picks among the ready cases.
SelectTick ==
    /\ pc = "select"
    /\ tick
    /\ tick' = FALSE
    /\ BeginPass("emitting")
    /\ nEmits' = nEmits + 1
    /\ UNCHANGED << cancelled, nTicks, prev >>
    /\ UNCHANGED appVars
    /\ UNCHANGED otherVars

\* A plausible slip: on ctx.Done() the loop flushes once more.
SelectDoneFlush ==
    /\ pc = "select"
    /\ cancelled
    /\ BeginPass("emitting")
    /\ nEmits' = nEmits + 1
    /\ UNCHANGED << tick, cancelled, nTicks, prev >>
    /\ UNCHANGED appVars
    /\ UNCHANGED otherVars

\* A plausible slip: cancellation also ends a pass that is under way.
SelectDoneInterrupts ==
    /\ pc \in {"select", "emitting"}
    /\ cancelled
    /\ pc' = "done"
    /\ UNCHANGED << tick, cancelled, snap, todo, sent, passAfter, nTicks, nEmits, prev >>
    /\ UNCHANGED appVars
    /\ UNCHANGED otherVars

\* select, case <-ctx.Done(): return (and the deferred t.Stop()).
SelectDone ==
    /\ pc = "select"
    /\ cancelled
    /\ pc' = "done"
    /\ UNCHANGED << tick, cancelled, snap, todo, sent, passAfter, nTicks, nEmits, prev >>
    /\ UNCHANGED appVars
    /\ UNCHANGED otherVars

\* The client's socket stops taking writes: Count and Gauge return an error.
SinkFails ==
    /\ ~sinkDown
    /\ sinkDown' = TRUE
    /\ UNCHANGED << thr, fgauge, arg, res, failed >>
    /\ UNCHANGED appVars
    /\ UNCHANGED emitVars

\* The client's socket takes writes again.
SinkRecovers ==
    /\ sinkDown
    /\ sinkDown' = FALSE
    /\ UNCHANGED << thr, fgauge, arg, res, failed >>
    /\ UNCHANGED appVars
    /\ UNCHANGED emitVars

\* ------------------------------------------------ New on any struct type

\* The metric-sample values of the struct types New is tried on.
Uniform == <<"u", "n", "i", "f", "o", "r", "m">>
ExpDecay == <<"e", "x", "p", "d", "e", "c", "a", "y">>

Samples ==
    { <<>>,
      Uniform,
      <<"U">> \o Tail(Uniform) \o <<",", "1", "0">>,
      Uniform \o <<",", "1", "0">>,
      Uniform \o <<",", "x">>,
      Uniform \o <<",">>,
      Uniform \o <<",", " ", "1">>,
      Uniform \o <<",", "1", ",", "5">>,
      ExpDecay,
      ExpDecay \o <<",", "1", "0">>,
      ExpDecay \o <<",", "1", "0", ",", "0", ".", "5">>,
      ExpDecay \o <<",", "1", "0", ",", "1">>,
      ExpDecay \o <<",", "x", ",", "0", ".", "5">>,
      ExpDecay \o <<",", "1", "0", ",", "x">>,
      ExpDecay \o <<",", "1", "0", ",", "0", ".", "5", ",", "1">>,
      <<"x">>,
      <<" ">> \o Uniform }

\* strings.ToLower on the letters the samples use.
ToLowerChar(c) == CASE c = "U" -> "u" [] c = "E" -> "e" [] OTHER -> c

ToLower(s) == [i \in 1..Len(s) |-> ToLowerChar(s[i])]

IsDigit(c) == c \in {"0", "1", "2", "3", "4", "5", "6", "7", "8", "9"}

AllDigits(s) == Len(s) > 0 /\ \A i \in 1..Len(s) : IsDigit(s[i])

Unsigned(s) == IF Len(s) > 0 /\ s[1] \in {"+", "-"} THEN Tail(s) ELSE s

\* strconv.Atoi(s) returns no error (sizes beyond an int are not drawn).
AtoiOk(s) == AllDigits(Unsigned(s))

\* strconv.ParseFloat(s, 64) returns no error, for the decimal forms
\* without an exponent; the samples drawn hold no other form.
ParseFloatOk(s) ==
    LET u == Unsigned(s)
        dot == IndexRune(u, ".")
    IN  IF dot = 0 THEN AllDigits(u)
        ELSE LET int == SubSeq(u, 1, dot - 1)
                 frac == SubSeq(u, dot + 1, Len(u))
             IN  /\ int = <<>> \/ AllDigits(int)
                 /\ frac = <<>> \/ AllDigits(frac)
                 /\ Len(int) + Len(frac) > 0

\* parseUniformSample: the error, "" when there is none.
parseUniformSample(parts) ==
    CASE Len(parts) = 1 -> ""
      [] Len(parts) = 2 ->
            IF AtoiOk(parts[2]) THEN "" ELSE "invalid uniform sample: reservoir"
      [] OTHER -> "invalid uniform sample"

\* A plausible slip: a reservoir size without an alpha is taken.
parseExpDecaySampleTwoParts(parts) ==
    CASE Len(parts) = 1 -> ""
      [] Len(parts) = 2 ->
            IF AtoiOk(parts[2]) THEN "" ELSE "invalid expdecay sample: reservoir"
      [] Len(parts) = 3 ->
            IF ~AtoiOk(parts[2]) THEN "invalid expdecay sample: reservoir"
            ELSE IF ~ParseFloatOk(parts[3]) THEN "invalid expdecay sample: alpha"
            ELSE ""
      [] OTHER -> "invalid expdecay sample"

\* parseExpDecaySample: the error, "" when there is none.
parseExpDecaySample(parts) ==
    CASE Len(parts) = 1 -> ""
      [] Len(parts) = 3 ->
            IF ~AtoiOk(parts[2]) THEN "invalid expdecay sample: reservoir"
            ELSE IF ~ParseFloatOk(parts[3]) THEN "invalid expdecay sample: alpha"
            ELSE ""
      [] OTHER -> "invalid expdecay sample"

\* parseSample(s): the error, "" when there is none.
parseSample(s) ==
    LET parts == SplitComma(ToLower(s))
    IN  CASE parts[1] = Uniform -> parseUniformSample(parts)
          [] parts[1] = ExpDecay -> parseExpDecaySample(parts)
          [] OTHER -> "invalid sample type"

\* What a struct type holds under the name Compute<FieldName>: nothing, a
\* method, or a field; with the parameters and results of its type.
Accessors ==
    { [where |-> "none", func |-> FALSE, numIn |-> 0, numOut |-> 0, out |-> "none"],
      [where |-> "field", func |-> FALSE, numIn |-> 0, numOut |-> 0, out |-> "none"] }
    \cup [where : {"method", "field"}, func : {TRUE}, numIn : {0, 1}, numOut : {1},
          out : {"int64", "float64"}]
    \cup [where : {"method"}, func : {TRUE}, numIn : {0}, numOut : {0, 2}, out : {"int64"}]

NoAccessor == [where |-> "none", func |-> FALSE, numIn |-> 0, numOut |-> 0, out |-> "none"]

PlainKinds == {"Counter", "Gauge", "GaugeFloat64", "Meter"}
SampledKinds == {"Histogram", "Timer"}
FunctionalKinds == {"FunctionalGauge", "FunctionalGaugeFloat64"}

\* The fields of the struct types New is tried on: type is the field's type
\* or, for a Tagged[...] field, its type parameter; metric says that the
\* field carries the metric tag.
FieldCases ==
    [type : PlainKinds, tagged : BOOLEAN, metric : BOOLEAN, sample : {<<>>},
     fn : {NoAccessor}]
    \cup [type : SampledKinds, tagged : {FALSE}, metric : {TRUE}, sample : Samples,
          fn : {NoAccessor}]
    \cup [type : SampledKinds, tagged : {TRUE}, metric : {TRUE},
          sample : {<<>>, Uniform \o <<",", "1", "0">>, ExpDecay \o <<",", "1", "0">>},
          fn : {NoAccessor}]
    \cup [type : FunctionalKinds, tagged : {FALSE}, metric : {TRUE}, sample : {<<>>},
          fn : Accessors]
    \cup [type : FunctionalKinds, tagged : {TRUE}, metric : {TRUE}, sample : {<<>>},
          fn : {a \in Accessors : a.where \in {"none", "method"} /\ a.numIn = 0 /\ a.numOut < 2}]
    \cup [type : {"Other"}, tagged : BOOLEAN, metric : BOOLEAN, sample : {<<>>},
          fn : {NoAccessor}]

\* The struct types: up to MaxFields fields; field i is named by i.
StructTypes == SeqsUpTo(FieldCases, MaxFields)

\* isMetric(f.Type)
isMetric(f) ==
    CASE f.type \in PlainKinds \cup SampledKinds -> TRUE
      [] f.type \in FunctionalKinds -> ~f.tagged
      [] OTHER -> FALSE

\* A plausible slip: the fields are collected last first.
RECURSIVE getMetricFieldsReversed(_, _)
getMetricFieldsReversed(fields, i) ==
    IF i > Len(fields) THEN [err |-> "", at |-> 0, fields |-> <<>>]
    ELSE IF fields[i].metric
         THEN IF isMetric(fields[i])
              THEN LET rest == getMetricFieldsReversed(fields, i + 1)
                   IN  [rest EXCEPT !.fields = @ \o <<i>>]
              ELSE [err |-> "metric tag appears on non-metric type", at |-> i,
                    fields |-> <<>>]
         ELSE getMetricFieldsReversed(fields, i + 1)

\* getMetricFields(typ): the indexes of the metric fields, or the error of
\* the first field with the tag and no metric type.
RECURSIVE getMetricFields(_, _)
getMetricFields(fields, i) ==
    IF i > Len(fields) THEN [err |-> "", at |-> 0, fields |-> <<>>]
    ELSE IF fields[i].metric
         THEN IF isMetric(fields[i])
              THEN LET rest == getMetricFields(fields, i + 1)
                   IN  [rest EXCEPT !.fields = <<i>> \o @]
              ELSE [err |-> "metric tag appears on non-metric type", at |-> i,
                    fields |-> <<>>]
         ELSE getMetricFields(fields, i + 1)

\* getGaugeFunction[N](v, f.Name): the error, "" when there is none.
getGaugeFunction(f, n) ==
    CASE f.fn.where = "none" -> "method or field does not exist"
      [] f.fn.where = "field" /\ ~f.fn.func -> "field must be a function"
      [] f.fn.numIn # 0 -> "function must take no parameters"
      [] f.fn.numOut # 1 -> "function must return a single value"
      [] f.fn.out # n -> "function must return a value of type"
      [] OTHER -> ""

\* A field New has not set.
NilValue == [kind |-> "nil", tagged |-> FALSE]

\* createField(v, f, name): the error or the value set into the field.
createField(f) ==
    LET set == [err |-> "", value |-> [kind |-> f.type, tagged |-> f.tagged]]
    IN  CASE f.type = "FunctionalGauge" ->
                 IF getGaugeFunction(f, "int64") # ""
                 THEN [err |-> getGaugeFunction(f, "int64"), value |-> NilValue]
                 ELSE set
          [] f.type = "FunctionalGaugeFloat64" ->
                 IF getGaugeFunction(f, "float64") # ""
                 THEN [err |-> getGaugeFunction(f, "float64"), value |-> NilValue]
                 ELSE set
          [] f.type \in SampledKinds ->
                 IF f.sample # <<>> /\ parseSample(f.sample) # ""
                 THEN [err |-> parseSample(f.sample), value |-> NilValue]
                 ELSE set
          [] OTHER -> set

\* The loop of New over the metric fields from the k-th on: m is the struct
\* so far, field by field.
RECURSIVE createAll(_, _, _, _)
createAll(fields, idx, k, m) ==
    IF k > Len(idx) THEN [panic |-> FALSE, at |-> 0, msg |-> "", m |-> m]
    ELSE LET made == createField(fields[idx[k]])
         IN  IF made.err # ""
             THEN [panic |-> TRUE, at |-> idx[k], msg |-> made.err, m |-> m]
             ELSE createAll(fields, idx, k + 1, [m EXCEPT ![idx[k]] = made.value])

\* A plausible slip: New returns the struct as far as it got.
NewStructPartial(fields) ==
    LET got == getMetricFields(fields, 1)
        zero == [i \in 1..Len(fields) |-> NilValue]
    IN  [createAll(fields, got.fields, 1, zero) EXCEPT !.panic = FALSE]

\* New[M]() for the struct type with these fields: the struct, or the panic
\* with the field it names; a panic returns no struct.
NewStruct(fields) ==
    LET got == getMetricFields(fields, 1)
        zero == [i \in 1..Len(fields) |-> NilValue]
    IN  IF got.err # ""
        THEN [panic |-> TRUE, at |-> got.at, msg |-> got.err, m |-> <<>>]
        ELSE LET all == createAll(fields, got.fields, 1, zero)
             IN  IF all.panic THEN [all EXCEPT !.m = <<>>] ELSE all

\* New[M]() is called for some struct type M, once in a run.
NewOnType ==
    /\ arg.fn = "none"
    /\ \E fields \in StructTypes :
          /\ arg' = [fn |-> "New", in |-> fields]
          /\ res' = [fn |-> "New", out |-> NewStruct(fields)]
    /\ UNCHANGED << thr, fgauge, sinkDown, failed >>
    /\ UNCHANGED appVars
    /\ UNCHANGED emitVars

\* ------------------------------------------------ the order of the fields

\* The fields of the struct types whose names are asked for: name is the
\* value of the metric tag, empty when the field has none.
OrderFields ==
    { f \in [type : {"Counter", "Gauge", "Other"}, tagged : BOOLEAN, metric : BOOLEAN,
             name : {<<>>, <<"a">>, <<"b">>, <<"c">>}] :
        /\ f.metric <=> f.name # <<>>
        /\ f.type = "Other" => ~f.tagged }

OrderTypes == SeqsUpTo(OrderFields, MaxOrder)

\* The loop of MetricNames, Register or Unregister over the fields found:
\* the metric tags it reads, one after the other.
RECURSIVE namesLoop(_, _, _)
namesLoop(fields, idx, k) ==
    IF k > Len(idx) THEN <<>>
    ELSE <<fields[idx[k]].name>> \o namesLoop(fields, idx, k + 1)

\* MetricNames(m): the names, or the panic.
metricNamesOf(fields) ==
    LET got == getMetricFields(fields, 1)
    IN  IF got.err # "" THEN [panic |-> TRUE, names |-> <<>>]
        ELSE [panic |-> FALSE, names |-> namesLoop(fields, got.fields, 1)]

\* Register(r, m): the names given to r.Register or GetOrRegister, in the
\* order of the calls, or the panic.
registerOrder(fields) ==
    LET got == getMetricFields(fields, 1)
    IN  IF got.err # "" THEN [panic |-> TRUE, names |-> <<>>]
        ELSE [panic |-> FALSE, names |-> namesLoop(fields, got.fields, 1)]

\* Unregister(r, m): the names given to r.Unregister, in the order of the
\* calls, or the panic.
unregisterOrder(fields) ==
    LET got == getMetricFields(fields, 1)
    IN  IF got.err # "" THEN [panic |-> TRUE, names |-> <<>>]
        ELSE [panic |-> FALSE, names |-> namesLoop(fields, got.fields, 1)]

\* MetricNames twice, Register and Unregister on a struct of some type,
\* once in a run.
NamesAndOrder ==
    /\ arg.fn = "none"
    /\ \E fields \in OrderTypes :
          /\ arg' = [fn |-> "MetricNames", in |-> fields]
          /\ res' = [fn |-> "MetricNames",
                     out |-> [first |-> metricNamesOf(fields),
                              second |-> metricNamesOf(fields),
                              register |-> registerOrder(fields),
                              unregister |-> unregisterOrder(fields)]]
    /\ UNCHANGED << thr, fgauge, sinkDown, failed >>
    /\ UNCHANGED appVars
    /\ UNCHANGED emitVars

\* ------------------------------------------- the sample of a histogram

DefaultReservoirSize == 1028
DefaultExpDecayAlpha == <<"0", ".", "0", "1", "5">>

DigitValue(c) ==
    CASE c = "0" -> 0 [] c = "1" -> 1 [] c = "2" -> 2 [] c = "3" -> 3 [] c = "4" -> 4
      [] c = "5" -> 5 [] c = "6" -> 6 [] c = "7" -> 7 [] c = "8" -> 8 [] c = "9" -> 9

\* The int strconv.Atoi returns for a string of digits.
RECURSIVE AtoiValue(_)
AtoiValue(s) ==
    IF s = <<>> THEN 0
    ELSE AtoiValue(SubSeq(s, 1, Len(s) - 1)) * 10 + DigitValue(s[Len(s)])

NoSample == [type |-> "none", rs |-> 0, alpha |-> <<>>]

\* The sample the function returned by parseSample(s) makes, for an s that
\* parseSample takes: the alpha is kept as it is written.
sampleParams(s) ==
    LET parts == SplitComma(ToLower(s))
    IN  CASE parts[1] = Uniform /\ Len(parts) = 1 ->
                [type |-> "uniform", rs |-> DefaultReservoirSize, alpha |-> <<>>]
          [] parts[1] = Uniform /\ Len(parts) = 2 ->
                [type |-> "uniform", rs |-> AtoiValue(Unsigned(parts[2])), alpha |-> <<>>]
          [] parts[1] = ExpDecay /\ Len(parts) = 1 ->
                [type |-> "expdecay", rs |-> DefaultReservoirSize,
                 alpha |-> DefaultExpDecayAlpha]
          [] parts[1] = ExpDecay /\ Len(parts) = 3 ->
                [type |-> "expdecay", rs |-> AtoiValue(Unsigned(parts[2])),
                 alpha |-> parts[3]]
          [] OTHER -> NoSample

\* createField for a histogram or timer field: the error, or the sample of
\* the metric the field's newMetric makes.
newSampledMetric(f) ==
    IF f.sample = <<>>
    THEN [err |-> "", sample |-> [type |-> "expdecay", rs |-> DefaultReservoirSize,
                                  alpha |-> DefaultExpDecayAlpha]]
    ELSE IF parseSample(f.sample) # ""
         THEN [err |-> parseSample(f.sample), sample |-> NoSample]
         ELSE [err |-> "", sample |-> sampleParams(f.sample)]

\* The parts the metric-sample values are built from, and the values.
SampleParts ==
    { Uniform, <<"U">> \o Tail(Uniform), ExpDecay, <<"1", "0">>, <<"0", ".", "5">>,
      <<"x">>, <<>>, <<" ", "1">> }

SampleValues == { JoinTags(parts) : parts \in SeqsUpTo(SampleParts, MaxParts) }

\* New on a struct type with one histogram or timer field, once in a run.
NewSampled ==
    /\ arg.fn = "none"
    /\ \E type \in SampledKinds, tagged \in BOOLEAN, sample \in SampleValues :
          LET f == [type |-> type, tagged |-> tagged, metric |-> TRUE,
                    sample |-> sample, fn |-> NoAccessor]
          IN  /\ arg' = [fn |-> "createField", in |-> f]
              /\ res' = [fn |-> "createField", out |-> newSampledMetric(f)]
    /\ UNCHANGED << thr, fgauge, sinkDown, failed >>
    /\ UNCHANGED appVars
    /\ UNCHANGED emitVars

\* ------------------------------------------------- the functional gauge

\* ComputeFunctionalGauge of the example struct: m.calls++; return m.calls.
ComputeFunctionalGauge(n) == [calls |-> n + 1, ret |-> n + 1]

\* A plausible slip: the gauge keeps the value it computed first.
FunctionalGaugeValueCached(n) ==
    IF n = 0 THEN ComputeFunctionalGauge(n) ELSE [calls |-> n, ret |-> n]

\* FunctionalGauge.Value(): g.value(), the function New found.
FunctionalGaugeValue(n) == ComputeFunctionalGauge(n)

\* m := New[Metrics](): createField finds ComputeFunctionalGauge and wraps
\* it with metrics.NewFunctionalGauge.
FunctionalNew ==
    /\ fgauge.state = "none"
    /\ fgauge' = [fgauge EXCEPT !.state = "new"]
    /\ UNCHANGED << thr, arg, res, sinkDown, failed >>
    /\ UNCHANGED appVars
    /\ UNCHANGED emitVars

\* Register(r, m): r.Register(name, gauge).
FunctionalRegister ==
    /\ fgauge.state = "new"
    /\ fgauge' = [fgauge EXCEPT !.state = "registered"]
    /\ UNCHANGED << thr, arg, res, sinkDown, failed >>
    /\ UNCHANGED appVars
    /\ UNCHANGED emitVars

\* The gauge is read once by `by'; reads keeps who read and what came back.
FunctionalRead(by) ==
    /\ Len(fgauge.reads) < MaxReads
    /\ LET got == FunctionalGaugeValue(fgauge.calls)
       IN  fgauge' = [fgauge EXCEPT !.calls = got.calls,
                                    !.reads = Append(@, [by |-> by, value |-> got.ret])]
    /\ UNCHANGED << thr, arg, res, sinkDown, failed >>
    /\ UNCHANGED appVars
    /\ UNCHANGED emitVars

\* m.FunctionalGauge.Value() called by the application.
FunctionalValueCall ==
    /\ fgauge.state \in {"new", "registered"}
    /\ FunctionalRead("Value")

\* EmitOnce over the registry that holds the gauge: the Gauge case sends
\* float64(m.Value()).
FunctionalEmitOnce ==
    /\ fgauge.state = "registered"
    /\ FunctionalRead("EmitOnce")

\* --------------------------------------- metrics registered by name

\* The kinds of metric a registry holds; EmitOnce has no case for the last.
RegistryKinds ==
    {"Counter", "Gauge", "GaugeFloat64", "Histogram", "Meter", "Timer", "Healthcheck"}

\* The names the application registers metrics under.
DirectNames ==
    { <<"c">>, <<"c", "[", "a", "]">>, <<"c", "[", "b", ",", "a", "]">>,
      <<"g", "[", "a", ":", "b", "]">> }

\* r.Register(name, metric) with a metric the application made itself, as
\* metrics.NewRegisteredGauge(name, r) does.
RegisterDirect(name, kind) ==
    /\ name \notin DOMAIN reg
    /\ Len(heap) < MaxInst
    /\ heap' = Append(heap, NewMetric(kind))
    /\ reg' = registerPlain(reg, name, Len(heap) + 1)
    /\ UNCHANGED << inst, taggedR, calls, unregd >>
    /\ UNCHANGED emitVars
    /\ UNCHANGED otherVars

\* ------------------------------------------------ Tag, then tagsFromName

\* The base names and the tags a registry key is built from and split again.
RoundTripBases == { <<>>, <<"c">>, <<"c", "]">>, <<"c", ",">>, <<"c", "[">>, <<"c", " ">> }

RoundTripTags ==
    { <<>>, <<" ">>, <<"a">>, <<" ", "a", " ">>, <<"b">>, <<"a", ":", "b">>,
      <<"a", ",", "b">>, <<"[">>, <<"a", "]">> }

RoundTripArgs == SeqsUpTo(RoundTripTags, MaxTags)

\* The key Tag builds for the tags on a registered field named base is
\* given to tagsFromName, as EmitOnce does with every key; once in a run.
TagThenTagsFromName ==
    /\ arg.fn = "none"
    /\ \E base \in RoundTripBases, tags \in RoundTripArgs :
          LET key == TagName(base, tags)
          IN  /\ arg' = [fn |-> "Tag", in |-> [base |-> base, tags |-> tags]]
              /\ res' = [fn |-> "Tag",
                         out |-> IF tagsFromNamePanics(key)
                                 THEN [key |-> key, panic |-> TRUE, name |-> <<>>,
                                       tags |-> <<>>]
                                 ELSE [key |-> key, panic |-> FALSE,
                                       name |-> tagsFromName(key).name,
                                       tags |-> tagsFromName(key).tags]]
    /\ UNCHANGED << thr, fgauge, sinkDown, failed >>
    /\ UNCHANGED appVars
    /\ UNCHANGED emitVars

\* ------------------------------------- names taken by other metrics

\* The names and kinds of the metrics other code registers in the registry
\* of the struct m1, whose tagged field r is a counter.
ForeignNames == { <<"r">>, <<"r", "[", "a", "]">>, <<"g">> }

ForeignKinds == {"Counter", "Gauge"}

\* ---------------------------------------------------- tagsFromName alone

\* The characters of the names given to tagsFromName, and the names.
NameChars == {"a", "b", "[", "]", ","}

NameStrings == SeqsUpTo(NameChars, MaxLen)

\* tagsFromName(name) is called, once in a run.
TagsFromNameCall ==
    /\ arg.fn = "none"
    /\ \E name \in NameStrings :
          /\ arg' = [fn |-> "tagsFromName", in |-> name]
          /\ res' = [fn |-> "tagsFromName",
                     out |-> IF tagsFromNamePanics(name)
                             THEN [panic |-> TRUE, name |-> <<>>, tags |-> <<>>]
                             ELSE [panic |-> FALSE, name |-> tagsFromName(name).name,
                                   tags |-> tagsFromName(name).tags]]
    /\ UNCHANGED << thr, fgauge, sinkDown, failed >>
    /\ UNCHANGED appVars
    /\ UNCHANGED emitVars

\* -------------------------------------------------------- pull exporter

\* The characters a series name may hold, among those the model's names use.
IsNameChar(c) == c \in {"a", "b", "c", "g", "r", "_", ":"}

\* The base name made a valid identifier: every run of other characters
\* becomes one "_", a run at the start is dropped.
RECURSIVE sanitizeFrom(_, _)
sanitizeFrom(s, out) ==
    IF s = <<>> THEN out
    ELSE IF IsNameChar(Head(s)) THEN sanitizeFrom(Tail(s), Append(out, Head(s)))
    ELSE IF out = <<>> \/ out[Len(out)] = "_" THEN sanitizeFrom(Tail(s), out)
    ELSE sanitizeFrom(Tail(s), Append(out, "_"))

\* A plausible slip: every character is kept.
sanitizeKeepsAll(s) == s

sanitize(s) == sanitizeFrom(s, <<>>)

\* The raw name split by the name[...] grammar: the whole name and no tags
\* when there is no "[" or the name does not end with "]".
splitName(name) ==
    LET start == IndexRune(name, "[")
    IN  IF start = 0 \/ name[Len(name)] # "]"
        THEN [name |-> name, tags |-> <<>>]
        ELSE [name |-> SubSeq(name, 1, start - 1),
              tags |-> SplitComma(SubSeq(name, start + 1, Len(name) - 1))]

\* A tag cut at its first colon.
Cut(tag) ==
    LET i == IndexRune(tag, ":")
    IN  IF i = 0 THEN [found |-> FALSE, key |-> tag, value |-> <<>>]
        ELSE [found |-> TRUE, key |-> SubSeq(tag, 1, i - 1),
              value |-> SubSeq(tag, i + 1, Len(tag))]

\* The label pairs of the key:value tags from tag k on, written over labels.
RECURSIVE labelsFromTagsFrom(_, _, _)
labelsFromTagsFrom(tags, k, labels) ==
    IF k > Len(tags) THEN labels
    ELSE LET c == Cut(tags[k])
         IN  IF c.found
             THEN labelsFromTagsFrom(tags, k + 1,
                      [x \in DOMAIN labels \cup {c.key} |->
                          IF x = c.key THEN c.value ELSE labels[x]])
             ELSE labelsFromTagsFrom(tags, k + 1, labels)

\* A plausible slip: the configured labels are added to tagged names only.
seriesLabelsTaggedOnly(tags, static) ==
    IF tags = <<>> THEN <<>>
    ELSE LET own == labelsFromTagsFrom(tags, 1, <<>>)
         IN  [x \in DOMAIN own \cup DOMAIN static |->
                 IF x \in DOMAIN static THEN static[x] ELSE own[x]]

\* The labels of the series of one entry: the key:value tags, then the
\* configured labels merged in.
seriesLabels(tags, static) ==
    LET own == labelsFromTagsFrom(tags, 1, <<>>)
    IN  [x \in DOMAIN own \cup DOMAIN static |->
            IF x \in DOMAIN static THEN static[x] ELSE own[x]]

\* The series one entry is exposed as, by the kind of its metric.
Series(typ, name, labels) == [typ |-> typ, name |-> name, labels |-> labels]

entrySeries(e, static) ==
    LET nt == splitName(e.name)
        name == sanitize(nt.name)
        labels == seriesLabels(nt.tags, static)
        kind == heap[e.id].kind
    IN  CASE kind = "Counter" -> << Series("untyped", name, labels) >>
          [] kind \in {"Gauge", "GaugeFloat64"} -> << Series("gauge", name, labels) >>
          [] kind = "Histogram" ->
                << Series("summary", name, labels),
                   Series("untyped", name \o <<"_", "m", "a", "x">>, labels),
                   Series("untyped", name \o <<"_", "m", "i", "n">>, labels) >>
          [] kind = "Meter" ->
                << Series("untyped", name \o <<"_", "c", "o", "u", "n", "t">>, labels) >>
          [] OTHER -> <<>>

\* The series of a set of entries, a bag.
RECURSIVE collectAll(_, _)
collectAll(es, static) ==
    IF es = {} THEN EmptyBag
    ELSE LET e == CHOOSE x \in es : TRUE
         IN  SeqToBag(entrySeries(e, static)) (+) collectAll(es \ {e}, static)

\* The label sets the collector is configured with: none, or test=labels
\* written here as r=b.
StaticLabelSets == { <<>>, [x \in {<<"r">>} |-> <<"b">>] }

\* The names metrics are registered under before a scrape.
CollectNames ==
    { <<"c">>, <<"g">>,
      <<"c", "[", "a", ":", "b", "]">>,
      <<"c", "[", "a", ":", "g", "]">>,
      <<"c", "[", "a", ":", "b", ",", "g", ":", "a", "]">>,
      <<"c", "[", "a", "]">>,
      <<"c", "[", "b", "]">>,
      <<"c", "[", "g", ",", "a", ":", "b", "]">>,
      <<"c", "[", "a", ":", "b">>,
      <<"c", " ">>, <<"c", ",">> }

CollectKinds == {"Counter", "Histogram", "Meter"}

\* Collect(): one scrape of the registry by a collector made with the
\* labels static, once in a run.
Collect ==
    /\ arg.fn = "none"
    /\ \E static \in StaticLabelSets :
          /\ arg' = [fn |-> "Collect", in |-> [entries |-> Registered, labels |-> static]]
          /\ res' = [fn |-> "Collect", out |-> collectAll(Registered, static)]
    /\ UNCHANGED << thr, fgauge, sinkDown, failed >>
    /\ UNCHANGED appVars
    /\ UNCHANGED emitVars

\* ------------------------------------------------------------------ SAML

\* The key descriptors Metadata() may return for the service provider.
KeyUses == {"signing", "encryption"}

KeyLists == SeqsUpTo(KeyUses, MaxKeys)

\* append(ks[:i], ks[i+1:]...) on the array under the slice, indexes from
\* 1: the elements after i move one place down, the last stays where it was.
removeAt(arr, len, i) ==
    [j \in 1..Len(arr) |-> IF j >= i /\ j < len THEN arr[j + 1] ELSE arr[j]]

\* The loop of MetadataHandler over role.KeyDescriptors from index i on:
\* range goes over the length the slice had at first and reads each element
\* from the array when its turn comes; ks[i+1:] panics when the slice has
\* become too short for it.
RECURSIVE removeEncryptionFrom(_, _, _)
removeEncryptionFrom(arr, len, i) ==
    IF i > Len(arr) THEN [panic |-> FALSE, keys |-> SubSeq(arr, 1, len)]
    ELSE IF arr[i] = "encryption"
         THEN IF i > len
              THEN [panic |-> TRUE, keys |-> <<>>]
              ELSE removeEncryptionFrom(removeAt(arr, len, i), len - 1, i + 1)
         ELSE removeEncryptionFrom(arr, len, i + 1)

\* MetadataHandler: the key descriptors and the logout services of the
\* metadata it sends, or the panic.
metadataOf(keys, disableEncryption, logoutPath) ==
    LET kept == IF disableEncryption
                THEN removeEncryptionFrom(keys, Len(keys), 1)
                ELSE [panic |-> FALSE, keys |-> keys]
    IN  [panic |-> kept.panic,
         keys |-> kept.keys,
         logout |-> IF kept.panic THEN FALSE ELSE logoutPath]

\* A request served by MetadataHandler, once in a run.
MetadataHandler ==
    /\ arg.fn = "none"
    /\ \E keys \in KeyLists, disableEncryption \in BOOLEAN, logoutPath \in BOOLEAN :
          /\ arg' = [fn |-> "MetadataHandler",
                     in |-> [keys |-> keys, disableEncryption |-> disableEncryption,
                             logoutPath |-> logoutPath]]
          /\ res' = [fn |-> "MetadataHandler",
                     out |-> metadataOf(keys, disableEncryption, logoutPath)]
    /\ UNCHANGED << thr, fgauge, sinkDown, failed >>
    /\ UNCHANGED appVars
    /\ UNCHANGED emitVars

\* The requests the assertion consumer service gets: whether the form
\* parses, what the ID store returns for the request, and the response
\* posted: the request ID it answers, the scheme of its destination and
\* whether its signature and conditions check out.
RequestIDs == {"", "id1", "id2"}

IDStoreResults ==
    [id : RequestIDs, err : {FALSE}] \cup { [id |-> "", err |-> TRUE] }

ACSRequests ==
    [formOk : BOOLEAN, tls : BOOLEAN, stored : IDStoreResults,
     inResponseTo : RequestIDs, destination : {"http", "https"}, valid : BOOLEAN]

\* getSAMLSettingsForRequest: the scheme of the URLs of the copy.
getSAMLSettingsForRequest(r, forceTLS) ==
    IF forceTLS \/ r.tls THEN "https" ELSE "http"

\* sp.ParseResponse(r, []string{id}): the response is taken when it checks
\* out, is addressed to the ACS URL and answers one of the request IDs.
ParseResponse(r, scheme, ids) ==
    /\ r.valid
    /\ r.destination = scheme
    /\ r.inResponseTo \in ids

\* A plausible slip: the handler goes on after an ID store error.
acsHandlerGoesOn(r, forceTLS) ==
    LET scheme == getSAMLSettingsForRequest(r, forceTLS)
        first == IF r.stored.err
                 THEN << [cb |-> "onError", code |-> 403, id |-> ""] >>
                 ELSE <<>>
    IN  IF ~r.formOk
        THEN << [cb |-> "onError", code |-> 403, id |-> ""] >>
        ELSE IF ~ParseResponse(r, scheme, {r.stored.id})
        THEN Append(first, [cb |-> "onError", code |-> 403, id |-> ""])
        ELSE Append(first, [cb |-> "onLogin", code |-> 0, id |-> r.stored.id])

\* The handler ACSHandler returns, on one request: the callbacks it
\* invokes, in order; id is the request ID the assertion was validated
\* against.
acsHandler(r, forceTLS) ==
    LET scheme == getSAMLSettingsForRequest(r, forceTLS)
    IN  IF ~r.formOk
        THEN << [cb |-> "onError", code |-> 403, id |-> ""] >>
        ELSE IF r.stored.err
        THEN << [cb |-> "onError", code |-> 403, id |-> ""] >>
        ELSE IF ~ParseResponse(r, scheme, {r.stored.id})
        THEN << [cb |-> "onError", code |-> 403, id |-> ""] >>
        ELSE << [cb |-> "onLogin", code |-> 0, id |-> r.stored.id] >>

\* A request served by the handler of ACSHandler, once in a run.
ACSHandler ==
    /\ arg.fn = "none"
    /\ \E r \in ACSRequests, forceTLS \in BOOLEAN :
          /\ arg' = [fn |-> "ACSHandler", in |-> [r |-> r, forceTLS |-> forceTLS]]
          /\ res' = [fn |-> "ACSHandler", out |-> acsHandler(r, forceTLS)]
    /\ UNCHANGED << thr, fgauge, sinkDown, failed >>
    /\ UNCHANGED appVars
    /\ UNCHANGED emitVars

\* ---------------------------------------------------------- specifications

FieldIndexes == 1..2
Amounts == {1, 2}

\* The structs, the registry and direct EmitOnce calls.
Next ==
    \/ \E h \in Holders : Register(h)
    \/ \E h \in Holders : Unregister(h)
    \/ \E h \in Holders, i \in FieldIndexes, tags \in FewTagArgs : Tag(h, i, tags)
    \/ EmitOnceCall
    \/ \E e \in todo : EmitVisit(e)
    \/ EmitOnceReturn

Spec == Init /\ [][Next]_vars

\* The struct with the tagged field and the registry alone; Tag takes every
\* argument list.
NextTag ==
    \/ Register("m1")
    \/ Unregister("m1")
    \/ \E tags \in TagArgs : Tag("m1", 2, tags)
    \/ \E j \in 1..MaxCalls : IncTagged(j, 1)

SpecTag == Init /\ [][NextTag]_vars

\* Structs made, made anew, used and registered.
NextNew ==
    \/ \E h \in Holders : NewCall(h)
    \/ \E h \in Holders : Register(h)
    \/ \E h \in Holders, i \in FieldIndexes : IncField(h, i, 1)
    \/ UpdateField("m2", 2, 1)
    \/ Tag("m1", 2, << <<"a">> >>)
    \/ IncTagged(1, 1)

SpecNew == Init /\ [][NextNew]_vars

\* New on every struct type.
NextNewOnType == NewOnType

SpecNewOnType == Init /\ [][NextNewOnType]_vars

\* The struct with a functional gauge, read by the application and emitted.
NextFunctional ==
    \/ FunctionalNew
    \/ FunctionalRegister
    \/ FunctionalValueCall
    \/ FunctionalEmitOnce

SpecFunctional == Init /\ [][NextFunctional]_vars

\* Metrics of every kind in the registry, and EmitOnce.
NextKinds ==
    \/ \E name \in DirectNames, kind \in RegistryKinds : RegisterDirect(name, kind)
    \/ EmitOnceCall
    \/ \E e \in todo : EmitVisit(e)
    \/ EmitOnceReturn

SpecKinds == Init /\ [][NextKinds]_vars

\* New on the histogram and timer fields of every metric-sample value.
NextSampled == NewSampled

SpecSampled == Init /\ [][NextSampled]_vars

\* MetricNames, Register and Unregister on every struct type.
NextOrder == NamesAndOrder

SpecOrder == Init /\ [][NextOrder]_vars

\* MetadataHandler on every list of key descriptors.
NextMetadata == MetadataHandler

SpecMetadata == Init /\ [][NextMetadata]_vars

\* Keys built by Tag and split by tagsFromName.
NextRoundTrip == TagThenTagsFromName

SpecRoundTrip == Init /\ [][NextRoundTrip]_vars

\* The struct m1 in a registry that other code registers metrics in.
NextForeign ==
    \/ Register("m1")
    \/ Unregister("m1")
    \/ \E name \in ForeignNames, kind \in ForeignKinds : RegisterDirect(name, kind)
    \/ \E tags \in FewTagArgs : Tag("m1", 2, tags)

SpecForeign == Init /\ [][NextForeign]_vars

\* ACSHandler on every request.
NextACS == ACSHandler

SpecACS == Init /\ [][NextACS]_vars

\* tagsFromName on every name.
NextNames == TagsFromNameCall

SpecNames == Init /\ [][NextNames]_vars

\* Goroutines that call Tag on the tagged field of m1 at the same time.
NextRace ==
    \/ Register("m1")
    \/ \E t \in Threads, tags \in RaceTagArgs : TagBegin(t, tags)
    \/ \E t \in Threads : GetOrRegisterFast(t)
    \/ \E t \in Threads : GetOrRegisterSlow(t)
    \/ \E t \in Threads : ThreadInc(t)

SpecRace == Init /\ [][NextRace]_vars

\* The Emit loop over a registry whose metrics the application updates.
NextEmit ==
    \/ \E h \in Holders : Register(h)
    \/ \E h \in Holders, i \in FieldIndexes, n \in Amounts : IncField(h, i, n)
    \/ UpdateField("m2", 2, 1)
    \/ Tag("m1", 2, << <<"a">> >>)
    \/ IncTagged(1, 1)
    \/ EmitStart
    \/ Tick
    \/ Cancel
    \/ SelectTick
    \/ \E e \in todo : EmitVisit(e)
    \/ EmitOnceReturn
    \/ SelectDone

SpecEmit == Init /\ [][NextEmit]_vars

\* The same with the scheduling Go guarantees: a running EmitOnce goes on,
\* and a select that finds ctx.Done() ready again and again takes it.
FairSpec ==
    /\ SpecEmit
    /\ WF_vars(\E e \in todo : EmitVisit(e))
    /\ WF_vars(EmitOnceReturn)
    /\ SF_vars(SelectDone)

\* The Emit loop with a client whose calls fail from time to time.
NextSink ==
    \/ \E h \in Holders : Register(h)
    \/ EmitStart
    \/ Tick
    \/ Cancel
    \/ SelectTick
    \/ \E e \in todo : EmitVisit(e)
    \/ EmitOnceReturn
    \/ SelectDone
    \/ SinkFails
    \/ SinkRecovers

SpecSink == Init /\ [][NextSink]_vars

\* The same with the scheduling Go guarantees: a running EmitOnce goes on,
\* and a select with a ready case takes one.
FairSpecSink ==
    /\ SpecSink
    /\ WF_vars(\E e \in todo : EmitVisit(e))
    /\ WF_vars(EmitOnceReturn)
    /\ WF_vars(SelectTick \/ SelectDone)

\* Metrics registered by name and one scrape of the pull exporter.
NextCollect ==
    \/ \E name \in CollectNames, kind \in CollectKinds : RegisterDirect(name, kind)
    \/ Collect

SpecCollect == Init /\ [][NextCollect]_vars

\* ----------------------------------------------------- properties: Tag

\* The tags of an argument list as the caller means them: trimmed, the
\* empty ones dropped.
TrimmedSet(ts) == {TrimSpace(ts[i]) : i \in DOMAIN ts} \ {<<>>}

Occurrences(t, ts) == Cardinality({i \in DOMAIN ts : TrimSpace(ts[i]) = t})

\* Two argument lists are equal after trimming, dropping the empty strings
\* and sorting: every tag occurs as often in one as in the other.
SameTags(a, b) ==
    \A t \in TrimmedSet(a) \cup TrimmedSet(b) : Occurrences(t, a) = Occurrences(t, b)

CommaFree(ts) == \A i \in DOMAIN ts : IndexRune(ts[i], ",") = 0

\* The remembered Tag calls made on the registered tagged metric.
BoundCalls == {i \in DOMAIN calls : calls[i].bound}

NamesOf(id) == {n \in DOMAIN reg : reg[n] = id}

\* C1: on a registered tagged metric, two Tag calls whose arguments are the
\* same tags up to order, surrounding whitespace and blank entries return
\* the same metric instance, and the registry holds it under exactly one name.
TagEquivalentSameInstance ==
    \A i, j \in BoundCalls :
        SameTags(calls[i].tags, calls[j].tags)
            => /\ calls[i].ret = calls[j].ret
               /\ Cardinality(NamesOf(calls[i].ret)) = 1

\* C1 witness: two calls with two tags each, written differently, returned
\* one instance, and an increment was recorded through it.
TagEquivalentWitness ==
    \E i, j \in BoundCalls :
        /\ i # j
        /\ calls[i].tags # calls[j].tags
        /\ SameTags(calls[i].tags, calls[j].tags)
        /\ Cardinality(TrimmedSet(calls[i].tags)) = 2
        /\ calls[i].ret = calls[j].ret
        /\ heap[calls[i].ret].count > 0

TaggedFields(h) == {i \in DOMAIN Fields(h) : Fields(h)[i].tagged}
PlainFields(h) == {i \in DOMAIN Fields(h) : ~Fields(h)[i].tagged}

\* C4: Register is first-registrant-wins.  A Register step keeps every
\* entry the registry already holds, adds exactly the declared names that
\* were free, and puts the struct's own instance under a free plain name;
\* so a struct registered second, or twice, replaces nothing.
RegisterFirstWins ==
    [][\A h \in Holders :
          Register(h) =>
              /\ \A n \in DOMAIN reg : n \in DOMAIN reg' /\ reg'[n] = reg[n]
              /\ DOMAIN reg' = DOMAIN reg \cup DeclaredNames(h)
              /\ \A i \in PlainFields(h) :
                    Fields(h)[i].name \notin DOMAIN reg
                        => reg'[Fields(h)[i].name] = inst[h][i]
      ]_vars

\* C4 witness: both structs have been registered and the shared name holds
\* the counter of m2, which m1's Register did not replace.
RegisterFirstWinsWitness ==
    /\ taggedR["m1"]
    /\ <<"r">> \in DOMAIN reg
    /\ <<"g">> \in DOMAIN reg
    /\ <<"c">> \in DOMAIN reg
    /\ reg[<<"c">>] = inst["m2"][1]

\* C5 as claimed: right after Unregister(r, m), with no Register and no Tag
\* call since, the registry holds none of m's declared names, and an
\* EmitOnce pass begun then sends no message named by a declared name of m.
UnregisterRemovesAll ==
    /\ (unregd # "none" /\ calls = <<>>)
           => DeclaredNames(unregd) \cap DOMAIN reg = {}
    /\ passAfter # "none"
           => \A m \in BagToSet(sent) : m.name \notin DeclaredNames(passAfter)

\* C6: Register puts the bare name of every tagged field into the registry,
\* with a new metric when the name was free; a Tag call with no tag left
\* after cleaning returns the metric under the bare name and changes nothing.
BareNameRegistered ==
    [][/\ \A h \in Holders :
             Register(h) =>
                 \A i \in TaggedFields(h) :
                     /\ Fields(h)[i].name \in DOMAIN reg'
                     /\ Fields(h)[i].name \notin DOMAIN reg
                            => heap'[reg'[Fields(h)[i].name]] = NewMetric(Fields(h)[i].kind)
       /\ \A h \in Holders, tags \in FewTagArgs :
             \A i \in TaggedFields(h) :
                 ( /\ Tag(h, i, tags)
                   /\ taggedR[h]
                   /\ TrimmedSet(tags) = {}
                   /\ Fields(h)[i].name \in DOMAIN reg )
                 => /\ calls'[Len(calls')].ret = reg[Fields(h)[i].name]
                    /\ reg' = reg
                    /\ heap' = heap
      ]_vars

\* C6 witness: a Tag call with only a blank tag returned the bare-name metric.
BareNameWitness ==
    \E i \in BoundCalls :
        /\ calls[i].tags = << <<" ">> >>
        /\ <<"r">> \in DOMAIN reg
        /\ calls[i].ret = reg[<<"r">>]

\* ------------------------------------------------- properties: emitter

BaseOf(e) == tagsFromName(e.name).name
TagsOf(e) == tagsFromName(e.name).tags

Counters(es) == {e \in es : heap[e.id].kind = "Counter"}

\* The count messages of the pass in progress for entry e.
CountMessagesFor(e) ==
    {m \in BagToSet(sent) : m.typ = "c" /\ m.name = BaseOf(e) /\ m.tags = TagsOf(e)}

EmitOnceSendsDeltas ==
    [][\A e \in Counters(todo) :
          EmitVisit(e) =>
              /\ sent' = sent (+) SetToBag({Msg("c", BaseOf(e),
                                                heap[e.id].count - prev[e.id], TagsOf(e))})
              /\ heap' = heap
      ]_vars

\* C9: Emit calls EmitOnce only for a tick: never more calls than ticks
\* delivered, and none while no tick has been delivered.
EmitOnlyOnTick ==
    /\ nEmits <= nTicks
    /\ nTicks = 0 => (nEmits = 0 /\ pc # "emitting" /\ sent = EmptyBag)

\* C9 witness: Emit has run EmitOnce for each of two ticks.
EmitOnlyOnTickWitness ==
    /\ nEmits = 2
    /\ nTicks = 2
    /\ pc = "select"

\* C10 as claimed: once ctx.Done() is closed Emit starts no further
\* EmitOnce, and it eventually returns.
EmitStopsAtCancel ==
    /\ [][cancelled => ~(pc = "select" /\ pc' = "emitting")]_vars
    /\ (cancelled /\ pc \in {"select", "emitting"}) ~> (pc = "done")

\* C10 as amended: once ctx.Done() is closed, Emit starts a further
\* EmitOnce only by taking a tick that waits in the ticker's channel; with
\* no tick waiting its select returns; and it eventually returns.
EmitStopsAfterCancel ==
    /\ [][(cancelled /\ pc = "select" /\ pc' # "select") =>
              /\ pc' = "emitting" => (tick /\ ~tick')
              /\ ~tick => pc' = "done"
         ]_vars
    /\ (cancelled /\ pc \in {"select", "emitting"}) ~> (pc = "done")

\* C10 witness: Emit returned on cancellation although a tick was waiting,
\* after at least one EmitOnce.
EmitStopsWitness ==
    /\ cancelled
    /\ pc = "done"
    /\ tick
    /\ nEmits >= 1

\* C11: cancellation never interrupts an EmitOnce that Emit has started:
\* the pass ends only by returning to the select, after it has visited every
\* entry Each copied and sent a message for each; Emit returns only from
\* its select; and a pass under way always gets to its end.
EmitOnceNotInterrupted ==
    /\ [][(pc = "emitting" /\ pc' # "emitting") =>
              /\ pc' = "select"
              /\ todo = {}
              /\ \A e \in snap :
                    \E m \in BagToSet(sent) : m.name = BaseOf(e) /\ m.tags = TagsOf(e)
         ]_vars
    /\ [][(pc # "done" /\ pc' = "done") => (pc = "select" /\ snap = {})]_vars
    /\ (pc = "emitting") ~> (pc = "select")

\* C11 witness: the context is cancelled and the pass in progress has
\* nevertheless visited all of its entries, at least two.
EmitOnceNotInterruptedWitness ==
    /\ cancelled
    /\ pc = "emitting"
    /\ todo = {}
    /\ Cardinality(snap) >= 2
    /\ BagCardinality(sent) >= 2

\* ------------------------------------------- properties: Tag, concurrent

RECURSIVE SumIncs(_, _)
SumIncs(ts, id) ==
    IF ts = {} THEN 0
    ELSE LET t == CHOOSE x \in ts : TRUE
         IN  (IF thr[t].pc = "done" /\ thr[t].ret = id THEN thr[t].incs ELSE 0)
                 + SumIncs(ts \ {t}, id)

\* The goroutines whose call on the registered field has returned.
Returned == {t \in Threads : thr[t].pc = "done" /\ thr[t].bound}

\* C12: goroutines that call Tag at the same time on the registered field
\* with equivalent tags all get the same instance; that instance is the one
\* stored under the key, no other metric was made for the key; and the
\* count of every returned instance is the sum of the increments made
\* through it.
TagRaceOneInstance ==
    /\ \A t, u \in Returned :
          cleanAndSortTags(thr[t].tags) = cleanAndSortTags(thr[u].tags)
              => thr[t].ret = thr[u].ret
    /\ \A t \in Returned :
          /\ thr[t].name \in DOMAIN reg
          /\ reg[thr[t].name] = thr[t].ret
    /\ \A id \in 1..Len(heap) :
          \/ \E h \in Holders : \E i \in 1..Len(Fields(h)) : inst[h][i] = id
          \/ \E t \in Threads : thr[t].pc = "done" /\ ~thr[t].bound /\ thr[t].ret = id
          \/ Cardinality({n \in DOMAIN reg : reg[n] = id}) = 1
    /\ \A t \in Threads :
          thr[t].pc = "done" => heap[thr[t].ret].count = SumIncs(Threads, thr[t].ret)

\* C12 witness: two goroutines with differently written equivalent tags both
\* found the key missing under the read lock, both went for the write lock,
\* both returned and both incremented.
TagRaceWitness ==
    \E t, u \in Returned :
        /\ t # u
        /\ thr[t].tags # thr[u].tags
        /\ thr[t].name = thr[u].name
        /\ thr[t].slow /\ thr[u].slow
        /\ thr[t].incs = 1 /\ thr[u].incs = 1

\* ------------------------------------- properties: EmitOnce, concurrent

\* The messages the pass in progress has sent for entry e.
MessagesFor(e) ==
    {m \in BagToSet(sent) : m.name = BaseOf(e) /\ m.tags = TagsOf(e)}

\* C13: an EmitOnce pass during which other goroutines call Register,
\* Unregister and Tag.  Each copies the registry's entries when the pass
\* begins; every copied entry still refers to a metric the callback can
\* read, whatever happened to the registry since; no entry's message is sent
\* twice; and when the pass returns it has sent the message of every copied
\* entry, so of every metric that was in the registry from beginning to end.
EmitOnceUnderChange ==
    /\ [](pc = "once" =>
            /\ \A e \in snap :
                  /\ e.id \in 1..Len(heap)
                  /\ heap[e.id].kind \in {"Counter", "Gauge"}
            /\ \A m \in BagToSet(sent) : CopiesIn(m, sent) = 1
            /\ BagCardinality(sent) = Cardinality(snap \ todo)
            /\ \A e \in snap \ todo : Cardinality(MessagesFor(e)) = 1)
    /\ [][EmitOnceCall => snap' = {[name |-> n, id |-> reg[n]] : n \in DOMAIN reg}]_vars
    /\ [][(pc = "once" /\ EmitOnceReturn) =>
              \A n \in DOMAIN reg :
                  [name |-> n, id |-> reg[n]] \in snap
                      => Cardinality(MessagesFor([name |-> n, id |-> reg[n]])) = 1
         ]_vars

\* C13 witness: a pass has visited all its entries while the registry lost
\* an entry, gained another and kept a third.
EmitOnceUnderChangeWitness ==
    /\ pc = "once"
    /\ todo = {}
    /\ snap \ Registered # {}
    /\ Registered \ snap # {}
    /\ snap \cap Registered # {}
    /\ BagCardinality(sent) >= 2

\* ------------------------------------------ properties: Tag before Register

\* The remembered Tag calls made while the field had no registry.
UnboundCalls == {j \in DOMAIN calls : ~calls[j].bound}

\* C14: Tag on a field that New created and Register has not seen returns a
\* new metric each time and leaves the registry alone: the metric is under no
\* name, no two such calls share it, and the metric a later Register stores
\* under the field's name starts at zero, whatever was counted before.
TagUnboundThrowaway ==
    /\ [](\A j \in UnboundCalls :
             /\ \A n \in DOMAIN reg : reg[n] # calls[j].ret
             /\ \A k \in DOMAIN calls : k # j => calls[k].ret # calls[j].ret)
    /\ [][\A tags \in TagArgs :
             (Tag("m1", 2, tags) /\ ~taggedR["m1"]) =>
                 /\ reg' = reg
                 /\ Len(heap') = Len(heap) + 1
                 /\ heap'[Len(heap')] = NewMetric("Counter")
                 /\ calls'[Len(calls')].ret = Len(heap')
         ]_vars
    /\ [][(Register("m1") /\ ~taggedR["m1"]) =>
             /\ <<"r">> \in DOMAIN reg'
             /\ heap'[reg'[<<"r">>]].count = 0
         ]_vars

\* C14 witness: two Tag calls with the same tags before Register returned
\* different metrics, one was incremented, and after Register the metric
\* under the field's name counts nothing.
TagUnboundWitness ==
    /\ taggedR["m1"]
    /\ <<"r">> \in DOMAIN reg
    /\ heap[reg[<<"r">>]].count = 0
    /\ \E j, k \in UnboundCalls :
          /\ j # k
          /\ calls[j].tags = calls[k].tags
          /\ calls[j].ret # calls[k].ret
          /\ heap[calls[j].ret].count > 0

\* ---------------------------------------------------- properties: New

\* The fields of struct h whose metric is in the registry.
InRegistry(h) ==
    {i \in 1..Len(Fields(h)) : \E n \in DOMAIN reg : reg[n] = inst[h][i]}

\* C15: New changes no registry, nor does anything recorded on a struct;
\* the registry changes only in Register and in Tag on a registered field,
\* and a metric of a struct gets into the registry only in Register of that
\* struct.
NewLeavesRegistry ==
    /\ [][(\E h \in Holders : NewCall(h)) => reg' = reg]_vars
    /\ [][(\/ \E h \in Holders, i \in FieldIndexes : IncField(h, i, 1)
           \/ UpdateField("m2", 2, 1)
           \/ IncTagged(1, 1)) => reg' = reg]_vars
    /\ [][reg' # reg => \/ \E h \in Holders : Register(h)
                        \/ (taggedR["m1"] /\ Tag("m1", 2, << <<"a">> >>))]_vars
    /\ [][\A h \in Holders :
             InRegistry(h)' \ InRegistry(h) # {} => Register(h)]_vars

\* C15 witness: a struct was made anew while the registry held metrics, and
\* something was counted on it; its counter is under no name.
NewLeavesRegistryWitness ==
    \E h \in Holders :
        /\ inst[h][1] > 3
        /\ heap[inst[h][1]].count > 0
        /\ DOMAIN reg # {}
        /\ 1 \notin InRegistry(h)

\* ------------------------------------------ properties: New, struct types

\* The metric-sample values of the documented form: the type alone, uniform
\* with a size, expdecay with a size and an alpha; letters of either case.
WellFormedSamples ==
    { Uniform,
      <<"U">> \o Tail(Uniform) \o <<",", "1", "0">>,
      Uniform \o <<",", "1", "0">>,
      ExpDecay,
      ExpDecay \o <<",", "1", "0", ",", "0", ".", "5">>,
      ExpDecay \o <<",", "1", "0", ",", "1">> }

\* The struct type has a usable Compute<FieldName> returning n.
GoodAccessor(f, n) ==
    /\ f.fn.where \in {"method", "field"}
    /\ f.fn.func
    /\ f.fn.numIn = 0
    /\ f.fn.numOut = 1
    /\ f.fn.out = n

\* A field with the metric tag that New must refuse.
InvalidField(f) ==
    /\ f.metric
    /\ \/ f.type = "Other"
       \/ f.type \in FunctionalKinds /\ f.tagged
       \/ f.type = "FunctionalGauge" /\ ~GoodAccessor(f, "int64")
       \/ f.type = "FunctionalGaugeFloat64" /\ ~GoodAccessor(f, "float64")
       \/ f.type \in SampledKinds /\ f.sample # <<>> /\ f.sample \notin WellFormedSamples

\* C16: New returns all or nothing.  When a field with the metric tag is
\* invalid (a type that is no metric, a Tagged functional gauge, a functional
\* gauge without a usable Compute function, a malformed metric-sample on a
\* histogram or timer) New panics, the panic names an invalid field and no
\* struct is returned, wherever the field stands; otherwise every field with
\* the tag is set and no other.
NewAllOrNothing ==
    arg.fn = "New" =>
        LET fields == arg.in
            r == res.out
            bad == {i \in 1..Len(fields) : InvalidField(fields[i])}
        IN  /\ r.panic <=> bad # {}
            /\ r.panic => (r.at \in bad /\ r.m = <<>>)
            /\ ~r.panic =>
                  /\ Len(r.m) = Len(fields)
                  /\ \A i \in 1..Len(fields) :
                        r.m[i] = IF fields[i].metric
                                 THEN [kind |-> fields[i].type, tagged |-> fields[i].tagged]
                                 ELSE NilValue

\* C16 witness: New panicked on a functional gauge without its Compute
\* function that stands after a valid counter.
NewAllOrNothingWitness ==
    /\ arg.fn = "New"
    /\ Len(arg.in) = 2
    /\ arg.in[1].metric
    /\ arg.in[1].type = "Counter"
    /\ arg.in[2].type = "FunctionalGauge"
    /\ arg.in[2].fn.where = "none"
    /\ res.out.panic
    /\ res.out.at = 2

\* ------------------------------------------ properties: functional gauge

\* C17: a functional gauge never caches.  After n reads, by the application
\* or by EmitOnce, the Compute function has run n times and the k-th read
\* got what its k-th run returned (k, as the function counts its runs); New
\* and Register do not run it.
FunctionalNeverCaches ==
    /\ [](/\ fgauge.calls = Len(fgauge.reads)
          /\ \A k \in 1..Len(fgauge.reads) : fgauge.reads[k].value = k)
    /\ [][(FunctionalNew \/ FunctionalRegister) => fgauge'.calls = fgauge.calls]_vars
    /\ [][(FunctionalValueCall \/ FunctionalEmitOnce) =>
              fgauge'.calls = fgauge.calls + 1]_vars

\* C17 witness: three reads, by the application and by EmitOnce, returned
\* 1, 2 and 3.
FunctionalNeverCachesWitness ==
    /\ fgauge.state = "registered"
    /\ Len(fgauge.reads) = 3
    /\ fgauge.reads[1].by = "Value"
    /\ fgauge.reads[2].by = "EmitOnce"
    /\ fgauge.reads[3].by = "Value"
    /\ fgauge.reads[3].value = 3
    /\ fgauge.calls = 3

\* ------------------------------------------ properties: EmitOnce by kind

\* The suffixes of the messages EmitOnce owes a metric of the kind.
SuffixesOf(kind) ==
    CASE kind \in {"Counter", "Gauge", "GaugeFloat64"} -> { <<>> }
      [] kind \in {"Histogram", "Timer"} ->
            { <<".", "a", "v", "g">>, <<".", "c", "o", "u", "n", "t">>, <<".", "m", "a", "x">>,
              <<".", "m", "e", "d", "i", "a", "n">>, <<".", "m", "i", "n">>, <<".", "s", "u", "m">>,
              <<".", "9", "5", "p", "e", "r", "c", "e", "n", "t", "i", "l", "e">> }
      [] kind = "Meter" ->
            { <<".", "a", "v", "g">>, <<".", "c", "o", "u", "n", "t">>,
              <<".", "r", "a", "t", "e", "1">>, <<".", "r", "a", "t", "e", "5">>,
              <<".", "r", "a", "t", "e", "1", "5">> }
      [] OTHER -> {}

\* The base name and the tags of the names metrics are registered under,
\* written out by hand.
BaseAndTags(name) ==
    CASE name = <<"c", "[", "a", "]">> -> [base |-> <<"c">>, tags |-> << <<"a">> >>]
      [] name = <<"c", "[", "b", ",", "a", "]">> ->
            [base |-> <<"c">>, tags |-> << <<"b">>, <<"a">> >>]
      [] name = <<"g", "[", "a", ":", "b", "]">> ->
            [base |-> <<"g">>, tags |-> << <<"a", ":", "b">> >>]
      [] OTHER -> [base |-> name, tags |-> <<>>]

HasOpen(name) == \E i \in 1..Len(name) : name[i] = "["

EndsClosed(name) == Len(name) > 0 /\ name[Len(name)] = "]"

\* C19 as claimed: for a name of the form base[t1,...,tn] tagsFromName
\* returns the text before the bracket and the tags in sorted order.
TagsFromNameSorted ==
    (arg.fn = "tagsFromName" /\ HasOpen(arg.in) /\ EndsClosed(arg.in)) =>
        LET open == CHOOSE i \in 1..Len(arg.in) :
                        arg.in[i] = "[" /\ \A j \in 1..(i - 1) : arg.in[j] # "["
            inside == SubSeq(arg.in, open + 1, Len(arg.in) - 1)
        IN  /\ ~res.out.panic
            /\ res.out.name = SubSeq(arg.in, 1, open - 1)
            /\ res.out.tags = SortStrings(SplitComma(inside))

\* C20: tagsFromName fails on no string, and a name without "[" or not
\* ending in "]" comes back whole with no tags: the empty name, a name with
\* "]" and no "[", a name with "[" that does not end in "]".
TagsFromNameTotal ==
    arg.fn = "tagsFromName" =>
        /\ ~res.out.panic
        /\ (~HasOpen(arg.in) \/ ~EndsClosed(arg.in)) =>
               (res.out.name = arg.in /\ res.out.tags = <<>>)

\* C20 witness: a name with an open bracket and tags but no closing bracket
\* came back whole.
TagsFromNameTotalWitness ==
    /\ arg.fn = "tagsFromName"
    /\ arg.in = <<"a", "[", "b", ",", "a">>
    /\ ~res.out.panic
    /\ res.out.name = arg.in
    /\ res.out.tags = <<>>

\* ------------------------------- properties: errors of the emitter's client

\* The entries whose sends returned an error in the pass in progress.
FailedNow == {f.e : f \in {g \in failed : g.pass = nEmits}}

\* C21: an error returned by the client for one message is not escalated.
\* The pass hands the messages of every entry it visits to the client, the
\* entries after the failed one included; a pass with a failed send ends
\* only by returning to the select after it has visited every entry; after
\* a failure Emit returns only on cancellation; and a tick that arrives
\* after a failure is followed by a further EmitOnce unless the context is
\* cancelled.
EmitSendFailureNotEscalated ==
    /\ [](pc = "emitting" =>
            \A e \in snap \ todo :
                \E m \in BagToSet(sent) : m.name = BaseOf(e) /\ m.tags = TagsOf(e))
    /\ [][(FailedNow' # {} /\ pc = "emitting" /\ pc' # "emitting") =>
              /\ pc' = "select"
              /\ todo = {}
              /\ BagCardinality(sent) >= Cardinality(snap)
         ]_vars
    /\ [][(failed' # {} /\ pc # "done" /\ pc' = "done") =>
              (pc = "select" /\ cancelled)]_vars
    /\ \A n \in 0..MaxTicks :
          (failed # {} /\ tick /\ nEmits = n /\ pc \in {"select", "emitting"})
              ~> (nEmits = n + 1 \/ cancelled)

\* C21 witness: a send failed in the first pass; the second pass has
\* visited all its entries, one with a failed send and one without.
EmitSendFailureWitness ==
    /\ pc = "emitting"
    /\ nEmits = 2
    /\ todo = {}
    /\ ~cancelled
    /\ \E f \in failed : f.pass = 1
    /\ \E e1, e2 \in snap :
          /\ e1 \in FailedNow
          /\ e2 \notin FailedNow
          /\ \E m \in BagToSet(sent) : m.name = BaseOf(e2) /\ m.tags = TagsOf(e2)

\* ------------------------------------------- properties: the pull exporter

\* The series name and the label pairs of the tags of each name metrics are
\* registered under, written out by hand.
ExpectedSeries(name) ==
    CASE name = <<"c", "[", "a", ":", "b", "]">> ->
            [base |-> <<"c">>, pairs |-> { << <<"a">>, <<"b">> >> }]
      [] name = <<"c", "[", "a", ":", "g", "]">> ->
            [base |-> <<"c">>, pairs |-> { << <<"a">>, <<"g">> >> }]
      [] name = <<"c", "[", "a", ":", "b", ",", "g", ":", "a", "]">> ->
            [base |-> <<"c">>, pairs |-> { << <<"a">>, <<"b">> >>, << <<"g">>, <<"a">> >> }]
      [] name = <<"c", "[", "a", "]">> -> [base |-> <<"c">>, pairs |-> {}]
      [] name = <<"c", "[", "b", "]">> -> [base |-> <<"c">>, pairs |-> {}]
      [] name = <<"c", "[", "g", ",", "a", ":", "b", "]">> ->
            [base |-> <<"c">>, pairs |-> { << <<"a">>, <<"b">> >> }]
      [] name = <<"c", "[", "a", ":", "b">> ->
            [base |-> <<"c", "_", "a", ":", "b">>, pairs |-> {}]
      [] name = <<"c", " ">> -> [base |-> <<"c", "_">>, pairs |-> {}]
      [] name = <<"c", ",">> -> [base |-> <<"c", "_">>, pairs |-> {}]
      [] OTHER -> [base |-> name, pairs |-> {}]

\* A label set as a set of pairs.
PairsOf(labels) == { <<k, labels[k]>> : k \in DOMAIN labels }

\* The suffixes of the series the exporter owes a metric of the kind.
SeriesSuffixes(kind) ==
    CASE kind \in {"Counter", "Gauge", "GaugeFloat64"} -> { <<>> }
      [] kind = "Histogram" -> { <<>>, <<"_", "m", "a", "x">>, <<"_", "m", "i", "n">> }
      [] kind = "Meter" -> { <<"_", "c", "o", "u", "n", "t">> }
      [] OTHER -> {}

\* The series a scrape owes the entry e under the configured labels.
SeriesOwed(e, static) ==
    { [name |-> ExpectedSeries(e.name).base \o sfx,
       pairs |-> ExpectedSeries(e.name).pairs \cup PairsOf(static)] :
          sfx \in SeriesSuffixes(heap[e.id].kind) }

\* C22: a scrape exposes an entry named base[tags] as series named after
\* the base, with one label per key:value tag, no label for a bare tag, and
\* every configured label, also when the name carries no tags; and it
\* exposes nothing else.
CollectProjectsLabels ==
    res.fn = "Collect" =>
        LET out == { [name |-> s.name, pairs |-> PairsOf(s.labels)] : s \in BagToSet(res.out) }
        IN  /\ \A e \in arg.in.entries : SeriesOwed(e, arg.in.labels) \subseteq out
            /\ out = UNION { SeriesOwed(e, arg.in.labels) : e \in arg.in.entries }
            /\ \A s \in BagToSet(res.out) :
                  \A k \in DOMAIN arg.in.labels : 
                      k \in DOMAIN s.labels /\ s.labels[k] = arg.in.labels[k]

\* C22 witness: a scrape with a configured label of a registry that holds
\* a name without tags, a name with a bare tag and a key:value tag, and a
\* name with two key:value tags.
CollectProjectsLabelsWitness ==
    /\ res.fn = "Collect"
    /\ arg.in.labels # <<>>
    /\ { <<"c">>, <<"c", "[", "g", ",", "a", ":", "b", "]">>,
         <<"c", "[", "a", ":", "b", ",", "g", ":", "a", "]">> }
           \subseteq { e.name : e \in arg.in.entries }
    /\ BagCardinality(res.out) >= 3

\* The series of the scrape with the name and the label pairs, counted.
SeriesCount(name, pairs) ==
    LET same == {s \in BagToSet(res.out) : s.name = name /\ PairsOf(s.labels) = pairs}
    IN  BagCardinality([s \in same |-> res.out[s]])

\* The entries of the scrape, with the suffixes of their kinds, that are owed
\* a series with the name and the label pairs.
OwedBy(name, pairs) ==
    { es \in arg.in.entries \X {<<>>, <<"_", "m", "a", "x">>, <<"_", "m", "i", "n">>,
                                <<"_", "c", "o", "u", "n", "t">>} :
        /\ es[2] \in SeriesSuffixes(heap[es[1].id].kind)
        /\ ExpectedSeries(es[1].name).base \o es[2] = name
        /\ ExpectedSeries(es[1].name).pairs \cup PairsOf(arg.in.labels) = pairs }

\* C29 as claimed: one scrape never yields two series with the same name
\* and the same label set.
CollectSeriesDistinct ==
    res.fn = "Collect" =>
        \A s \in BagToSet(res.out) : SeriesCount(s.name, PairsOf(s.labels)) = 1

\* C29 as amended: one scrape yields a series name and label set as many
\* times as there are entries whose sanitized base name, kind suffix and
\* key:value tags project onto it: once for entries that differ in one of
\* these, more than once for entries that differ only in bare tags or in
\* characters the sanitizer replaces.
CollectSeriesPerProjection ==
    res.fn = "Collect" =>
        \A s \in BagToSet(res.out) :
            SeriesCount(s.name, PairsOf(s.labels))
                = Cardinality(OwedBy(s.name, PairsOf(s.labels)))

\* C29 witness: one scrape of two tagged variants of one base name that
\* differ in a key:value tag, exposed apart, and of a third that differs
\* from the first in a bare tag only, exposed as the first is.
CollectSeriesPerProjectionWitness ==
    /\ res.fn = "Collect"
    /\ { <<"c", "[", "a", ":", "b", "]">>, <<"c", "[", "a", ":", "g", "]">>,
         <<"c", "[", "g", ",", "a", ":", "b", "]">> }
           = { e.name : e \in arg.in.entries }
    /\ \A e \in arg.in.entries : heap[e.id].kind = "Counter"
    /\ SeriesCount(<<"c">>, { << <<"a">>, <<"g">> >> } \cup PairsOf(arg.in.labels)) = 1
    /\ SeriesCount(<<"c">>, { << <<"a">>, <<"b">> >> } \cup PairsOf(arg.in.labels)) = 2

\* --------------------------------------------- properties: metric-sample

\* The metric-sample values of the four forms, among the values drawn.
UniformWords == { Uniform, <<"U">> \o Tail(Uniform) }

TakenSamples ==
    UniformWords
    \cup { u \o <<",", "1", "0">> : u \in UniformWords }
    \cup { ExpDecay }
    \cup { ExpDecay \o <<",", "1", "0", ",">> \o f : f \in { <<"1", "0">>, <<"0", ".", "5">> } }

RECURSIVE DeclaredInOrder(_)
DeclaredInOrder(fields) ==
    IF fields = <<>> THEN <<>>
    ELSE IF Head(fields).name # <<>>
         THEN <<Head(fields).name>> \o DeclaredInOrder(Tail(fields))
         ELSE DeclaredInOrder(Tail(fields))

\* C24: on a struct type whose metric tags all stand on metric types,
\* MetricNames returns the declared names in the order of the fields, the
\* same on a second call, and Register and Unregister go through the
\* names in that order.
MetricNamesInOrder ==
    (arg.fn = "MetricNames"
        /\ \A i \in 1..Len(arg.in) : arg.in[i].metric => arg.in[i].type # "Other") =>
            /\ ~res.out.first.panic
            /\ res.out.first.names = DeclaredInOrder(arg.in)
            /\ res.out.second = res.out.first
            /\ res.out.register.names = res.out.first.names
            /\ res.out.unregister.names = res.out.first.names

\* C24 witness: a struct type with three names, not in sorted order, one
\* twice, and the names MetricNames returned for it.
MetricNamesInOrderWitness ==
    /\ arg.fn = "MetricNames"
    /\ Len(arg.in) = 3
    /\ res.out.first.names = << <<"b">>, <<"a">>, <<"b">> >>
    /\ res.out.register.names = << <<"b">>, <<"a">>, <<"b">> >>

\* ------------------------------------------------------ properties: SAML

NotBlank(tags) == {i \in 1..Len(tags) : \E j \in 1..Len(tags[i]) : tags[i][j] # " "}

\* C26: for a base name without "[" and tags that are not all blank and
\* hold no comma, tagsFromName applied to the key Tag builds returns the
\* base name and the trimmed non-blank tags in sorted order, each as often
\* as it was given.
TagRoundTrip ==
    (/\ arg.fn = "Tag"
     /\ \A j \in 1..Len(arg.in.base) : arg.in.base[j] # "["
     /\ NotBlank(arg.in.tags) # {}
     /\ \A i \in 1..Len(arg.in.tags) : CommaFree(<<arg.in.tags[i]>>)) =>
        /\ ~res.out.panic
        /\ res.out.name = arg.in.base
        /\ Len(res.out.tags) = Cardinality(NotBlank(arg.in.tags))
        /\ \A k \in 1..(Len(res.out.tags) - 1) :
              ~StrLess(res.out.tags[k + 1], res.out.tags[k])
        /\ \A i \in NotBlank(arg.in.tags) :
              Occurrences(TrimSpace(arg.in.tags[i]), res.out.tags)
                  = Cardinality({j \in NotBlank(arg.in.tags) :
                                    TrimSpace(arg.in.tags[j]) = TrimSpace(arg.in.tags[i])})

\* C26 witness: the key built for the tags "[" and " a " on the base name
\* "c]" was split into that base name and the tags "[" and "a".
TagRoundTripWitness ==
    /\ arg.fn = "Tag"
    /\ arg.in.base = <<"c", "]">>
    /\ arg.in.tags = << <<"[">>, <<" ", "a", " ">> >>
    /\ res.out.name = <<"c", "]">>
    /\ res.out.tags = << <<"[">>, <<"a">> >>

\* ------------------------------ properties: Tag on names taken by others

\* C27 as claimed: every Tag call on the registered tagged counter of m1
\* returns a metric, and the metric is a counter, whatever the registry
\* holds.
TagReturnsDeclaredKind ==
    \A j \in BoundCalls :
        /\ calls[j].ret # 0
        /\ heap[calls[j].ret].kind = Fields("m1")[2].kind

\* ---------------------------------------- properties: after Unregister

\* C28 as claimed: from Unregister(r, m) until the next Register, no
\* operation on the fields of m, a Tag call in particular, adds an entry
\* to the registry.
NoEntryAfterUnregister ==
    [][\A h \in Holders :
          (unregd = h /\ unregd' = h) => DOMAIN reg' \subseteq DOMAIN reg]_vars

\* ------------------------------------------------ properties: ACSHandler

\* C30: for every request the handler invokes exactly one callback, once:
\* the login callback when the form parsed, the ID store returned an ID
\* without error and the response validated against that ID; the error
\* callback in every other case.
ACSExactlyOneCallback ==
    arg.fn = "ACSHandler" =>
        LET r == arg.in.r
            scheme == IF arg.in.forceTLS \/ r.tls THEN "https" ELSE "http"
            good == /\ r.formOk
                    /\ ~r.stored.err
                    /\ r.valid
                    /\ r.destination = scheme
                    /\ r.inResponseTo = r.stored.id
        IN  /\ Len(res.out) = 1
            /\ res.out[1].cb \in {"onError", "onLogin"}
            /\ res.out[1].cb = "onLogin" <=> good
            /\ res.out[1].cb = "onLogin" => res.out[1].id = r.stored.id

\* C30 witness: the ID store failed for a request whose response would
\* have validated, and the handler invoked the error callback alone.
ACSExactlyOneCallbackWitness ==
    /\ arg.fn = "ACSHandler"
    /\ arg.in.r.formOk
    /\ arg.in.r.stored.err
    /\ arg.in.r.valid
    /\ arg.in.r.inResponseTo = ""
    /\ arg.in.r.destination = "https"
    /\ arg.in.forceTLS
    /\ res.out = << [cb |-> "onError", code |-> 403, id |-> ""] >>


====
